---------------------------- MODULE Spec2Model ----------------------------
(***************************************************************************)
(* Verification model of the baton-docusign connector: the grant           *)
(* derivation engine (pkg/connector permission helpers) and the            *)
(* pagination cursor protocol (parsePageToken, the builders' List/Grants   *)
(* handlers and the client's flat page token).                             *)
(*                                                                         *)
(* Go strings that the code inspects character by character (setting       *)
(* values, which are lower-cased) are sequences of one-character strings.  *)
(* Identifiers the code only compares for equality (field names,           *)
(* permission ids, resource type ids, user ids) are TLA+ strings.          *)
(***************************************************************************)
EXTENDS Integers, Sequences, FiniteSets, TLC

(***************************************************************************)
(* Bounds of the model.                                                    *)
(***************************************************************************)
\* number of leading rows of VaryingFields whose values vary jointly
MaxVarying == 2

\* users the provider's account holds at most
MaxUsers == 2

\* items (users, groups, members) the provider holds at most
MaxItems == 3

\* entries of an externally supplied cursor stack at most
MaxDepth == 2

\* largest position of the position triples the provider reports
MaxPos == 11
MaxNewUsers == 2
MaxPageItems == 2

(***************************************************************************)
(* Strings as character sequences.                                         *)
(***************************************************************************)
sEmpty == << >>
sTrue == <<"t", "r", "u", "e">>
sTrueCap == <<"T", "r", "u", "e">>
sTrueUp == <<"T", "R", "U", "E">>
sFalse == <<"f", "a", "l", "s", "e">>
sAdmin == <<"a", "d", "m", "i", "n">>
sAdminCap == <<"A", "d", "m", "i", "n">>
sShare == <<"s", "h", "a", "r", "e">>
sShareUp == <<"S", "H", "A", "R", "E">>
sNone == <<"n", "o", "n", "e">>
sOne == <<"1">>

\* strings.ToLower on one character (ASCII letters)
LowerChar(c) ==
    CASE c = "A" -> "a" [] c = "B" -> "b" [] c = "C" -> "c" [] c = "D" -> "d"
      [] c = "E" -> "e" [] c = "F" -> "f" [] c = "G" -> "g" [] c = "H" -> "h"
      [] c = "I" -> "i" [] c = "J" -> "j" [] c = "K" -> "k" [] c = "L" -> "l"
      [] c = "M" -> "m" [] c = "N" -> "n" [] c = "O" -> "o" [] c = "P" -> "p"
      [] c = "Q" -> "q" [] c = "R" -> "r" [] c = "S" -> "s" [] c = "T" -> "t"
      [] c = "U" -> "u" [] c = "V" -> "v" [] c = "W" -> "w" [] c = "X" -> "x"
      [] c = "Y" -> "y" [] c = "Z" -> "z" [] OTHER -> c

\* strings.ToLower
ToLower(s) == [i \in 1..Len(s) |-> LowerChar(s[i])]

(***************************************************************************)
(* Static tables (permissions_definitions.go).                             *)
(***************************************************************************)
permissionResourceID == "docusign-permissions"

\* a catalog that lacks the vaulting permission
permissionDefinitions_WithoutVaulting ==
    << "adminOnly", "canManageAccount", "canManageTemplates",
       "canEditSharedAddressbook", "canManageOrganization",
       "canManageDistributor", "canSendEnvelope", "canSignEnvelope",
       "allowSendOnBehalfOf", "bulkSend", "canSendAPIRequests",
       "enableSequentialSigningUI", "enableDSPro", "canUseScratchpad",
       "canCreateWorkspaces", "enableTransactionPoint", "powerFormMode",
       "apiCanExportAC", "canUseSmartContracts" >>

\* ids of the permission catalog, in catalog order
permissionDefinitions ==
    << "adminOnly", "canManageAccount", "canManageTemplates",
       "canEditSharedAddressbook", "canManageOrganization",
       "canManageDistributor", "canSendEnvelope", "canSignEnvelope",
       "allowSendOnBehalfOf", "bulkSend", "canSendAPIRequests",
       "enableSequentialSigningUI", "enableDSPro", "canUseScratchpad",
       "canCreateWorkspaces", "enableTransactionPoint", "powerFormMode",
       "apiCanExportAC", "enableVaulting", "canUseSmartContracts" >>

Row(f, p) == [FieldName |-> f, PermissionID |-> p]

fieldToPermissionMappings ==
    << Row("isAdmin", "adminOnly"),
       Row("adminOnly", "adminOnly"),
       Row("canManageAccount", "canManageAccount"),
       Row("canManageTemplates", "canManageTemplates"),
       Row("canEditSharedAddressbook", "canEditSharedAddressbook"),
       Row("canManageOrganization", "canManageOrganization"),
       Row("canManageDistributor", "canManageDistributor"),
       Row("canSendEnvelope", "canSendEnvelope"),
       Row("canSignEnvelope", "canSignEnvelope"),
       Row("allowSendOnBehalfOf", "allowSendOnBehalfOf"),
       Row("bulkSend", "bulkSend"),
       Row("canSendAPIRequests", "canSendAPIRequests"),
       Row("enableSequentialSigningUI", "enableSequentialSigningUI"),
       Row("enableDSPro", "enableDSPro"),
       Row("canUseScratchpad", "canUseScratchpad"),
       Row("canCreateWorkspaces", "canCreateWorkspaces"),
       Row("enableTransactionPoint", "enableTransactionPoint"),
       Row("powerFormMode", "powerFormMode"),
       Row("apiCanExportAC", "apiCanExportAC"),
       Row("enableVaulting", "enableVaulting"),
       Row("canUseSmartContracts", "canUseSmartContracts") >>

validPermissionValues == {sTrue, sAdmin, sShare}

(***************************************************************************)
(* Settings structure (pkg/client/models.go).                              *)
(***************************************************************************)
\* JSON tags of the string-typed fields of UserSettings
StringSettingTags ==
    { "canManageAccount", "canSendEnvelope", "canSignEnvelope",
      "allowSendOnBehalfOf", "bulkSend", "canSendAPIRequests",
      "enableSequentialSigningUI", "enableDSPro", "canUseScratchpad",
      "canCreateWorkspaces", "enableTransactionPoint", "powerFormMode",
      "apiCanExportAC", "enableVaulting", "canManageTemplates",
      "canEditSharedAddressbook", "adminOnly", "canManageDistributor",
      "canManageOrganization", "canUseSmartContracts" }

\* JSON tags of the struct-typed fields of UserSettings
ObjectSettingTags ==
    { "accountManagementGranular", "signerEmailNotifications",
      "senderEmailNotifications" }

\* a decoded JSON value as Go's interface{} holds it
JString(s) == [kind |-> "string", str |-> s, b |-> FALSE]
JBool(x) == [kind |-> "bool", str |-> sEmpty, b |-> x]
JNumber(digits) == [kind |-> "number", str |-> digits, b |-> FALSE]
JNull == [kind |-> "null", str |-> sEmpty, b |-> FALSE]
JObject == [kind |-> "object", str |-> sEmpty, b |-> FALSE]
JArray == [kind |-> "array", str |-> sEmpty, b |-> FALSE]

\* variant: the struct also declares the isAdmin tag, filled like adminOnly
parseUserSettings_WithIsAdmin(settings) ==
    [tag \in StringSettingTags \cup ObjectSettingTags \cup {"isAdmin"} |->
        IF tag = "isAdmin" THEN JString(settings["adminOnly"])
        ELSE IF tag \in StringSettingTags THEN JString(settings[tag]) ELSE JObject]

\* json.Marshal of the UserSettings struct followed by json.Unmarshal into a
\* map: one key per declared tag (no tag has omitempty), string fields as
\* JSON strings, nested structs as JSON objects
parseUserSettings(settings) ==
    [tag \in StringSettingTags \cup ObjectSettingTags |->
        IF tag \in StringSettingTags THEN JString(settings[tag]) ELSE JObject]

(***************************************************************************)
(* Value acceptance and grant derivation.                                  *)
(***************************************************************************)
\* variant: the string is compared without lower-casing it
checkPermissionValue_NoLower(value) ==
    CASE value.kind = "string" ->
            [ok |-> value.str \in validPermissionValues, level |-> value.str]
      [] value.kind = "bool" ->
            IF value.b THEN [ok |-> TRUE, level |-> sTrue]
                       ELSE [ok |-> FALSE, level |-> sFalse]
      [] OTHER -> [ok |-> FALSE, level |-> sEmpty]

\* variant: every non-empty string other than "false" counts as granted
checkPermissionValue_Truthy(value) ==
    CASE value.kind = "string" ->
            [ok |-> ToLower(value.str) \notin {sEmpty, sFalse},
             level |-> ToLower(value.str)]
      [] value.kind = "bool" ->
            IF value.b THEN [ok |-> TRUE, level |-> sTrue]
                       ELSE [ok |-> FALSE, level |-> sFalse]
      [] OTHER -> [ok |-> FALSE, level |-> sEmpty]

\* checkPermissionValue: (hasPermission, accessLevel)
checkPermissionValue(value) ==
    CASE value.kind = "string" ->
            [ok |-> ToLower(value.str) \in validPermissionValues,
             level |-> ToLower(value.str)]
      [] value.kind = "bool" ->
            IF value.b THEN [ok |-> TRUE, level |-> sTrue]
                       ELSE [ok |-> FALSE, level |-> sFalse]
      [] OTHER -> [ok |-> FALSE, level |-> sEmpty]

userResourceTypeId == "user"
groupResourceTypeId == "group"

makeUserSubjectID(userID) == [ResourceType |-> userResourceTypeId, Resource |-> userID]

createGrantMetadata(user, accessLevel) ==
    [source |-> "DocuSign", profile |-> user.PermissionProfileName,
     user_id |-> user.UserID, username |-> user.UserName,
     access_level |-> accessLevel]

\* grant.NewGrant(resource, entitlement, principal, metadata)
NewGrant(res, ent, principal, md) ==
    [resource |-> res, entitlement |-> ent, principal |-> principal, metadata |-> md]

\* the loop of createUserGrants over rows i..Len(table), in table order
RECURSIVE GrantsFromRow(_, _, _)
GrantsFromRow(i, settingsMap, user) ==
    IF i > Len(fieldToPermissionMappings) THEN << >>
    ELSE LET mapping == fieldToPermissionMappings[i]
             rest == GrantsFromRow(i + 1, settingsMap, user)
         IN IF mapping.FieldName \in DOMAIN settingsMap
            THEN LET r == checkPermissionValue(settingsMap[mapping.FieldName])
                 IN IF r.ok
                    THEN << NewGrant(permissionResourceID, mapping.PermissionID,
                                     makeUserSubjectID(user.UserID),
                                     createGrantMetadata(user, r.level)) >> \o rest
                    ELSE rest
            ELSE rest

\* variant: a grant for every row whose field is present, whatever its value
createUserGrants_NoValueCheck(user) ==
    LET m == parseUserSettings(user.UserSettings)
        present == SelectSeq(fieldToPermissionMappings, LAMBDA row : row.FieldName \in DOMAIN m)
    IN [k \in 1..Len(present) |->
           NewGrant(permissionResourceID, present[k].PermissionID,
                    makeUserSubjectID(user.UserID),
                    createGrantMetadata(user, checkPermissionValue(m[present[k].FieldName]).level))]

createUserGrants(user) == GrantsFromRow(1, parseUserSettings(user.UserSettings), user)


\* the Go map fieldToPermissionID of processUserPermissions holds the same
\* pairs as the table; a map has no order of its own
\* permissionBuilder.Entitlements: one permission entitlement per catalog
\* entry, on the given resource, grantable to users
Entitlements(resource) ==
    [k \in DOMAIN permissionDefinitions |->
        [resource |-> resource, id |-> permissionDefinitions[k], grantableTo |-> userResourceTypeId]]

fieldToPermissionID == {fieldToPermissionMappings[i] : i \in DOMAIN fieldToPermissionMappings}

\* iteration orders of the map: only the relative order of fields that share
\* a permission id can change the result, so one order per arrangement of
\* the alias pair (isAdmin, adminOnly) is kept
SwapFirstTwo(seq) == [i \in DOMAIN seq |-> IF i = 1 THEN seq[2] ELSE IF i = 2 THEN seq[1] ELSE seq[i]]

MapOrders == {fieldToPermissionMappings, SwapFirstTwo(fieldToPermissionMappings)}

\* inner loop of processUserPermissions for one catalog entry: the first
\* field, in iteration order, that maps to permID and carries an accepted
\* value yields the grant; the loop then breaks
RECURSIVE FirstAccepted(_, _, _, _, _)
FirstAccepted(j, order, permID, settingsMap, user) ==
    IF j > Len(order) THEN << >>
    ELSE LET e == order[j]
         IN IF e.PermissionID = permID /\ e.FieldName \in DOMAIN settingsMap
               /\ checkPermissionValue(settingsMap[e.FieldName]).ok
            THEN << NewGrant(permissionResourceID, permID,
                             makeUserSubjectID(user.UserID),
                             createGrantMetadata(user,
                                 checkPermissionValue(settingsMap[e.FieldName]).level)) >>
            ELSE FirstAccepted(j + 1, order, permID, settingsMap, user)

\* variant: one loop over the map, a grant per accepted field in iteration
\* order
RECURSIVE GrantsFromCatalog_InMapOrder(_, _, _, _)
GrantsFromCatalog_InMapOrder(i, order, settingsMap, user) ==
    IF i > Len(order) THEN << >>
    ELSE (IF order[i].FieldName \in DOMAIN settingsMap
             /\ checkPermissionValue(settingsMap[order[i].FieldName]).ok
          THEN << NewGrant(permissionResourceID, order[i].PermissionID,
                           makeUserSubjectID(user.UserID),
                           createGrantMetadata(user,
                               checkPermissionValue(settingsMap[order[i].FieldName]).level)) >>
          ELSE << >>)
            \o GrantsFromCatalog_InMapOrder(i + 1, order, settingsMap, user)

\* outer loop of processUserPermissions over the catalog, in catalog order
RECURSIVE GrantsFromCatalog(_, _, _, _)
GrantsFromCatalog(i, order, settingsMap, user) ==
    IF i > Len(permissionDefinitions) THEN << >>
    ELSE FirstAccepted(1, order, permissionDefinitions[i], settingsMap, user)
            \o GrantsFromCatalog(i + 1, order, settingsMap, user)

processUserPermissions(user, order) ==
    GrantsFromCatalog(1, order, parseUserSettings(user.UserSettings), user)

(***************************************************************************)
(* Inputs of the grant derivation: the user details the provider returns.  *)
(***************************************************************************)
\* values a string-typed setting takes
SettingSamples == {sEmpty, sTrueCap, sFalse, sAdminCap, sOne}

\* fields whose values vary jointly, most interesting first
VaryingFields ==
    << "adminOnly", "canManageAccount", "enableVaulting", "powerFormMode",
       "canSendEnvelope", "canManageTemplates" >>

JointTags == {VaryingFields[i] : i \in 1..MaxVarying}

ZeroSettings == [tag \in StringSettingTags |-> sEmpty]

SettingsOver(samples) ==
    {[tag \in StringSettingTags |-> IF tag \in JointTags THEN a[tag] ELSE sEmpty] :
        a \in [JointTags -> samples]}

\* the settings of the literal three-grant user
ThreeGrantSettings ==
    [ZeroSettings EXCEPT !["canManageAccount"] = sTrue, !["enableVaulting"] = sTrueCap,
                         !["adminOnly"] = sAdminCap]

UserSettingsInputs ==
    SettingsOver(SettingSamples)
        \cup {[ZeroSettings EXCEPT ![f] = sShare] : f \in StringSettingTags}
        \cup {ThreeGrantSettings}

UserDetailOf(id, settings) ==
    [UserID |-> id,
     UserName |-> CASE id = "u1" -> "alice" [] id = "u2" -> "bob" [] OTHER -> "carol",
     PermissionProfileName |-> IF id = "u1" THEN "Admin" ELSE "Sender",
     UserSettings |-> settings]

\* every way of upper-casing some of the characters of s
UpperChar(c) ==
    CASE c = "a" -> "A" [] c = "d" -> "D" [] c = "e" -> "E" [] c = "f" -> "F"
      [] c = "h" -> "H" [] c = "i" -> "I" [] c = "l" -> "L" [] c = "m" -> "M"
      [] c = "n" -> "N" [] c = "o" -> "O" [] c = "r" -> "R" [] c = "s" -> "S"
      [] c = "t" -> "T" [] c = "u" -> "U" [] OTHER -> c

CaseVariants(s) ==
    {[i \in 1..Len(s) |-> IF i \in up THEN UpperChar(s[i]) ELSE s[i]] : up \in SUBSET (1..Len(s))}

\* values handed to checkPermissionValue: any decoded JSON value
JSONValues ==
    {JString(s) : s \in UNION {CaseVariants(t) : t \in {sTrue, sAdmin, sShare, sFalse, sNone}}
                          \cup {sEmpty, sOne}}
        \cup {JBool(TRUE), JBool(FALSE), JNumber(sOne), JNumber(<<"0">>), JNull, JObject, JArray}

\* settings of the users after the first one of an account
OtherSettings ==
    { ZeroSettings,
      [ZeroSettings EXCEPT !["canManageAccount"] = sTrue, !["canSendEnvelope"] = sShare] }

UserIdAt(i) == <<"u1", "u2", "u3", "u4">>[i]

\* the accounts the provider may hold: up to MaxUsers users, the first with
\* any settings of UserSettingsInputs, the second with settings of
\* OtherSettings, the later ones with the three-grant settings
RECURSIVE AccountsOfLen(_)
AccountsOfLen(n) ==
    IF n = 0 THEN {<< >>}
    ELSE IF n = 1 THEN {<<UserDetailOf(UserIdAt(1), st)>> : st \in UserSettingsInputs}
    ELSE {Append(a, UserDetailOf(UserIdAt(n), st)) :
             a \in AccountsOfLen(n - 1), st \in IF n = 2 THEN OtherSettings ELSE {ThreeGrantSettings}}

Accounts == UNION {AccountsOfLen(n) : n \in 0..MaxUsers}

(***************************************************************************)
(* Wire strings of the pagination protocol.  A Go string that travels as a *)
(* token is the empty string, the base64 text of a flat page token, the    *)
(* JSON text of a cursor stack, or text that is neither.                   *)
(***************************************************************************)
EmptyStr == [kind |-> "empty", start |-> << >>, states |-> << >>, cur |-> << >>]
GarbageStr == [kind |-> "garbage", start |-> << >>, states |-> << >>, cur |-> << >>]

\* base64 of {"startPosition":<digits>}
FlatStr(digits) == [kind |-> "b64", start |-> digits, states |-> << >>, cur |-> << >>]

\* {"states":[...],"current_state":{...}|null}; cur holds zero or one object
BagStr(states, cur) == [kind |-> "json", start |-> << >>, states |-> states, cur |-> cur]

DigitChar(d) == <<"0", "1", "2", "3", "4", "5", "6", "7", "8", "9">>[d + 1]

DigitValue(c) == CHOOSE d \in 0..9 : DigitChar(d) = c

\* decimal text of a non-negative integer, as encoding/json and %d write it
RECURSIVE IntToDigits(_)
IntToDigits(n) == IF n < 10 THEN <<DigitChar(n)>> ELSE IntToDigits(n \div 10) \o <<DigitChar(n % 10)>>

\* the integer a decimal text denotes
RECURSIVE DigitsToInt(_)
DigitsToInt(ds) ==
    IF Len(ds) = 0 THEN 0
    ELSE 10 * DigitsToInt(SubSeq(ds, 1, Len(ds) - 1)) + DigitValue(ds[Len(ds)])

(***************************************************************************)
(* pagination.Bag of the SDK: a stack of page states, the active one kept  *)
(* apart in currentState (a pointer: zero or one element here).            *)
(***************************************************************************)
PageState(token, type, id) == [Token |-> token, ResourceTypeID |-> type, ResourceID |-> id]

EmptyBag == [states |-> << >>, currentState |-> << >>]

\* JSON object of a PageState and back (tags token, type, id)
PageStateToJSON(st) == [token |-> st.Token, type |-> st.ResourceTypeID, id |-> st.ResourceID]

PageStateFromJSON(o) == PageState(o.token, o.type, o.id)

BagUnmarshal(input) ==
    IF input = EmptyStr THEN [err |-> FALSE, bag |-> EmptyBag]
    ELSE IF input.kind # "json" THEN [err |-> TRUE, bag |-> EmptyBag]
    ELSE [err |-> FALSE,
          bag |-> [states |-> [i \in DOMAIN input.states |-> PageStateFromJSON(input.states[i])],
                   currentState |-> [i \in DOMAIN input.cur |-> PageStateFromJSON(input.cur[i])]]]

BagMarshal(bag) ==
    IF bag.currentState = << >> THEN EmptyStr
    ELSE BagStr([i \in DOMAIN bag.states |-> PageStateToJSON(bag.states[i])],
                <<PageStateToJSON(bag.currentState[1])>>)

BagCurrent(bag) == bag.currentState

BagPush(bag, st) ==
    IF bag.currentState = << >> THEN [bag EXCEPT !.currentState = <<st>>]
    ELSE [states |-> Append(bag.states, bag.currentState[1]), currentState |-> <<st>>]

BagPop(bag) ==
    IF bag.currentState = << >> THEN bag
    ELSE IF Len(bag.states) > 0
         THEN [states |-> SubSeq(bag.states, 1, Len(bag.states) - 1),
               currentState |-> <<bag.states[Len(bag.states)]>>]
         ELSE [bag EXCEPT !.currentState = << >>]

BagPageToken(bag) == IF bag.currentState = << >> THEN EmptyStr ELSE bag.currentState[1].Token

\* Next: pop the active state and, for a non-empty page token, push it back
\* with the new token
BagNext(bag, pageToken) ==
    IF bag.currentState = << >> THEN [err |-> TRUE, bag |-> bag]
    ELSE IF pageToken # EmptyStr
         THEN [err |-> FALSE,
               bag |-> BagPush(BagPop(bag), [bag.currentState[1] EXCEPT !.Token = pageToken])]
         ELSE [err |-> FALSE, bag |-> BagPop(bag)]

BagNextToken(bag, pageToken) ==
    LET n == BagNext(bag, pageToken)
    IN IF n.err THEN [err |-> TRUE, token |-> EmptyStr, bag |-> n.bag]
       ELSE [err |-> FALSE, token |-> BagMarshal(n.bag), bag |-> n.bag]

(***************************************************************************)
(* parsePageToken (connector helpers).                                     *)
(***************************************************************************)
\* variant: the fresh entry is built with resource type and id exchanged
parsePageToken_SwapsScope(i, resourceID) ==
    LET u == BagUnmarshal(i)
    IN IF u.err THEN [err |-> TRUE, bag |-> EmptyBag, pageToken |-> EmptyStr]
       ELSE LET b == IF BagCurrent(u.bag) = << >>
                     THEN BagPush(u.bag, PageState(EmptyStr, resourceID.Resource, resourceID.ResourceType))
                     ELSE u.bag
            IN [err |-> FALSE, bag |-> b, pageToken |-> BagPageToken(b)]

\* variant: a token that does not deserialize is treated like the empty one
parsePageToken_SwallowsError(i, resourceID) ==
    LET u == BagUnmarshal(i)
        b == IF BagCurrent(u.bag) = << >>
             THEN BagPush(u.bag, PageState(EmptyStr, resourceID.ResourceType, resourceID.Resource))
             ELSE u.bag
    IN [err |-> FALSE, bag |-> b, pageToken |-> BagPageToken(b)]

\* variant: an entry for the requested scope is pushed whenever the active
\* entry is absent or belongs to another scope
parsePageToken_PushOnMismatch(i, resourceID) ==
    LET u == BagUnmarshal(i)
    IN IF u.err THEN [err |-> TRUE, bag |-> EmptyBag, pageToken |-> EmptyStr]
       ELSE LET cur == BagCurrent(u.bag)
                b == IF cur = << >> \/ cur[1].ResourceTypeID # resourceID.ResourceType
                                    \/ cur[1].ResourceID # resourceID.Resource
                     THEN BagPush(u.bag, PageState(EmptyStr, resourceID.ResourceType, resourceID.Resource))
                     ELSE u.bag
            IN [err |-> FALSE, bag |-> b, pageToken |-> BagPageToken(b)]

parsePageToken(i, resourceID) ==
    LET u == BagUnmarshal(i)
    IN IF u.err THEN [err |-> TRUE, bag |-> EmptyBag, pageToken |-> EmptyStr]
       ELSE LET b == IF BagCurrent(u.bag) = << >>
                     THEN BagPush(u.bag, PageState(EmptyStr, resourceID.ResourceType, resourceID.Resource))
                     ELSE u.bag
            IN [err |-> FALSE, bag |-> b, pageToken |-> BagPageToken(b)]


(***************************************************************************)
(* Flat page token and paged requests of the client (pkg/client/helper.go).*)
(***************************************************************************)
DefaultPageSize == 50

EncodePageToken(pt) == FlatStr(IntToDigits(pt.StartPosition))

\* variant: the decoded text is never parsed into the struct
DecodePageToken_KeepsZero(token) ==
    IF token = EmptyStr THEN [err |-> FALSE, pt |-> [StartPosition |-> 0]]
    ELSE IF token.kind # "b64" THEN [err |-> TRUE, pt |-> [StartPosition |-> 0]]
    ELSE [err |-> FALSE, pt |-> [StartPosition |-> 0]]

DecodePageToken(token) ==
    IF token = EmptyStr THEN [err |-> FALSE, pt |-> [StartPosition |-> 0]]
    ELSE IF token.kind # "b64" THEN [err |-> TRUE, pt |-> [StartPosition |-> 0]]
    ELSE [err |-> FALSE, pt |-> [StartPosition |-> DigitsToInt(token.start)]]

\* the URL of a paged request: endpoint plus start_position and count
PreparePagedRequest(endpoint, options) ==
    LET d == DecodePageToken(options.PageToken)
        pageSize == IF options.PageSize <= 0 THEN DefaultPageSize ELSE options.PageSize
    IN IF options.PageToken # EmptyStr /\ d.err
       THEN [err |-> TRUE, url |-> [endpoint |-> endpoint, start_position |-> 0, count |-> 0]]
       ELSE [err |-> FALSE,
             url |-> [endpoint |-> endpoint,
                      start_position |-> IF options.PageToken # EmptyStr THEN d.pt.StartPosition ELSE 0,
                      count |-> pageSize]]

\* variant: the test of the all-pages loops, which stop on the page that
\* holds the last position
GetNextToken_StopsAtLastPosition(responsePage) ==
    IF responsePage.EndPosition + 1 < responsePage.TotalSetSize
    THEN EncodePageToken([StartPosition |-> responsePage.EndPosition + 1])
    ELSE EmptyStr

GetNextToken(responsePage) ==
    IF responsePage.EndPosition < responsePage.TotalSetSize
    THEN EncodePageToken([StartPosition |-> responsePage.EndPosition + 1])
    ELSE EmptyStr

(***************************************************************************)
(* The provider: an account holding total items at positions 0..total-1.   *)
(* It answers a paged request with the items in range and the position     *)
(* triple, or fails.  What it reports as endPosition for a page without    *)
(* items is the provider's choice.                                         *)
(***************************************************************************)
Min(a, b) == IF a < b THEN a ELSE b

Max(a, b) == IF a > b THEN a ELSE b

\* reactions of the provider to one request
Oracles ==
    {[fail |-> TRUE, emptyEnd |-> "zero"]}
        \cup [fail : {FALSE}, emptyEnd : {"zero", "before", "start"}]

ProviderServe(url, total, oracle) ==
    LET start == url.start_position
        n == Max(0, Min(total - start, url.count))
        endPos == IF n > 0 THEN start + n - 1
                  ELSE CASE oracle.emptyEnd = "zero" -> 0
                         [] oracle.emptyEnd = "before" -> Max(start - 1, 0)
                         [] OTHER -> start
    IN [err |-> oracle.fail,
        items |-> IF oracle.fail THEN << >> ELSE [k \in 1..n |-> start + k - 1],
        Page |-> [ResultSetSize |-> n, TotalSetSize |-> total,
                  StartPosition |-> start, EndPosition |-> endPos]]

\* a fetcher result records, next to (items, next, err), the cursor the
\* fetcher was handed and the provider requests it issued
FetchError(options, reqs) ==
    [err |-> TRUE, items |-> << >>, next |-> EmptyStr, cursor |-> options.PageToken, reqs |-> reqs]

\* Client.GetUsers / GetGroups / GetGroupUsers: one page of an endpoint
GetUsers(options, total, oracle) ==
    LET prep == PreparePagedRequest(<<"users">>, options)
        resp == ProviderServe(prep.url, total, oracle)
    IN IF prep.err THEN FetchError(options, << >>)
       ELSE IF resp.err THEN FetchError(options, <<prep.url>>)
       ELSE [err |-> FALSE, items |-> resp.items, next |-> GetNextToken(resp.Page),
             cursor |-> options.PageToken, reqs |-> <<prep.url>>]

GetGroups(options, total, oracle) ==
    LET prep == PreparePagedRequest(<<"groups">>, options)
        resp == ProviderServe(prep.url, total, oracle)
    IN IF prep.err THEN FetchError(options, << >>)
       ELSE IF resp.err THEN FetchError(options, <<prep.url>>)
       ELSE [err |-> FALSE, items |-> resp.items, next |-> GetNextToken(resp.Page),
             cursor |-> options.PageToken, reqs |-> <<prep.url>>]

GetGroupUsers(groupId, options, total, oracle) ==
    LET prep == PreparePagedRequest(<<"groups", groupId, "users">>, options)
        resp == ProviderServe(prep.url, total, oracle)
    IN IF prep.err THEN FetchError(options, << >>)
       ELSE IF resp.err THEN FetchError(options, <<prep.url>>)
       ELSE [err |-> FALSE, items |-> resp.items, next |-> GetNextToken(resp.Page),
             cursor |-> options.PageToken, reqs |-> <<prep.url>>]

(***************************************************************************)
(* The builders' paged handlers.  A result records, next to what the       *)
(* handler returns (resources, token, err), what it did on the way: the    *)
(* cursor stack it decoded, the cursor it passed to the page fetcher, the  *)
(* continuation the fetcher returned and the provider requests issued.     *)
(***************************************************************************)
NoFetch == [called |-> FALSE, cursor |-> EmptyStr, ok |-> FALSE, cont |-> EmptyStr]

Fetched(f) == [called |-> TRUE, cursor |-> f.cursor, ok |-> ~f.err, cont |-> f.next]

\* p is the result of parsePageToken
HandlerError(p, fetch, reqs) ==
    [resources |-> << >>, token |-> EmptyStr, err |-> TRUE,
     decoded |-> ~p.err, bag |-> p.bag, pageToken |-> p.pageToken, fetch |-> fetch, reqs |-> reqs]

HandlerOk(resources, token, p, fetch, reqs) ==
    [resources |-> resources, token |-> token, err |-> FALSE,
     decoded |-> TRUE, bag |-> p.bag, pageToken |-> p.pageToken, fetch |-> fetch, reqs |-> reqs]

\* the resource id parseIntoUserResource / parseIntoGroupResource give an item
ResourceOf(type, item) == [ResourceType |-> type, Resource |-> item]

\* variant: bag.NextToken is called whatever the continuation
FinishPage_AlwaysNextToken(resources, p, f) ==
    LET out == BagNextToken(p.bag, f.next)
    IN IF out.err THEN HandlerError(p, Fetched(f), f.reqs)
       ELSE HandlerOk(resources, out.token, p, Fetched(f), f.reqs)

\* variant: the stack is serialized without recording the continuation
FinishPage_StaleBag(resources, p, f) ==
    LET out == IF f.next # EmptyStr THEN [err |-> FALSE, token |-> BagMarshal(p.bag), bag |-> p.bag]
               ELSE [err |-> FALSE, token |-> EmptyStr, bag |-> p.bag]
    IN IF out.err THEN HandlerError(p, Fetched(f), f.reqs)
       ELSE HandlerOk(resources, out.token, p, Fetched(f), f.reqs)

\* variant: only the active entry is carried into the returned token
FinishPage_DropsLowerEntries(resources, p, f) ==
    LET out == IF f.next # EmptyStr
               THEN BagNextToken([states |-> << >>, currentState |-> p.bag.currentState], f.next)
               ELSE [err |-> FALSE, token |-> EmptyStr, bag |-> p.bag]
    IN IF out.err THEN HandlerError(p, Fetched(f), f.reqs)
       ELSE HandlerOk(resources, out.token, p, Fetched(f), f.reqs)

\* the tail shared by the three handlers: outToken stays empty unless the
\* fetcher's continuation is non-empty, and then is bag.NextToken(continuation)
FinishPage(resources, p, f) ==
    LET out == IF f.next # EmptyStr THEN BagNextToken(p.bag, f.next)
               ELSE [err |-> FALSE, token |-> EmptyStr, bag |-> p.bag]
    IN IF out.err THEN HandlerError(p, Fetched(f), f.reqs)
       ELSE HandlerOk(resources, out.token, p, Fetched(f), f.reqs)

userBuilderList(token, size, total, oracle) ==
    LET p == parsePageToken(token, [ResourceType |-> userResourceTypeId, Resource |-> ""])
        f == GetUsers([PageSize |-> size, PageToken |-> p.pageToken], total, oracle)
    IN IF p.err THEN HandlerError(p, NoFetch, << >>)
       ELSE IF f.err THEN HandlerError(p, Fetched(f), f.reqs)
       ELSE FinishPage([k \in DOMAIN f.items |-> ResourceOf(userResourceTypeId, f.items[k])], p, f)

\* variant: a failed fetch is treated as a page without items
groupBuilderList_IgnoresFetchError(token, size, total, oracle) ==
    LET p == parsePageToken(token, [ResourceType |-> userResourceTypeId, Resource |-> ""])
        f == GetGroups([PageSize |-> size, PageToken |-> p.pageToken], total, oracle)
    IN IF p.err THEN HandlerError(p, NoFetch, << >>)
       ELSE FinishPage([k \in DOMAIN f.items |-> ResourceOf(groupResourceTypeId, f.items[k])], p, f)

\* variant: every call asks the fetcher for the first page
groupBuilderList_RestartsCursor(token, size, total, oracle) ==
    LET p == parsePageToken(token, [ResourceType |-> userResourceTypeId, Resource |-> ""])
        f == GetGroups([PageSize |-> size, PageToken |-> EmptyStr], total, oracle)
    IN IF p.err THEN HandlerError(p, NoFetch, << >>)
       ELSE IF f.err THEN HandlerError(p, Fetched(f), f.reqs)
       ELSE FinishPage([k \in DOMAIN f.items |-> ResourceOf(groupResourceTypeId, f.items[k])], p, f)

groupBuilderList(token, size, total, oracle) ==
    LET p == parsePageToken(token, [ResourceType |-> userResourceTypeId, Resource |-> ""])
        f == GetGroups([PageSize |-> size, PageToken |-> p.pageToken], total, oracle)
    IN IF p.err THEN HandlerError(p, NoFetch, << >>)
       ELSE IF f.err THEN HandlerError(p, Fetched(f), f.reqs)
       ELSE FinishPage([k \in DOMAIN f.items |-> ResourceOf(groupResourceTypeId, f.items[k])], p, f)

\* Grants of a group: one member grant per user of the page
groupBuilderGrants(groupId, token, size, total, oracle) ==
    LET p == parsePageToken(token, [ResourceType |-> userResourceTypeId, Resource |-> ""])
        f == GetGroupUsers(groupId, [PageSize |-> size, PageToken |-> p.pageToken], total, oracle)
    IN IF p.err THEN HandlerError(p, NoFetch, << >>)
       ELSE IF f.err THEN HandlerError(p, Fetched(f), f.reqs)
       ELSE FinishPage([k \in DOMAIN f.items |->
                           NewGrant(ResourceOf(groupResourceTypeId, groupId), "member",
                                    ResourceOf(userResourceTypeId, f.items[k]),
                                    [group_id |-> groupId, user_id |-> f.items[k]])], p, f)

(***************************************************************************)
(* User resources (users.go, permissions.go) and account creation.         *)
(***************************************************************************)
\* provider status texts
stActive == <<"A", "c", "t", "i", "v", "e">>
stDisabled == <<"D", "i", "s", "a", "b", "l", "e", "d">>
stClosed == <<"C", "l", "o", "s", "e", "d">>
stActivationRequired == <<"A", "c", "t", "i", "v", "a", "t", "i", "o", "n", "R", "e", "q", "u", "i", "r", "e", "d">>
stActivationSent == <<"A", "c", "t", "i", "v", "a", "t", "i", "o", "n", "S", "e", "n", "t">>
stActiveLower == <<"a", "c", "t", "i", "v", "e">>
stActiveUpper == <<"A", "C", "T", "I", "V", "E">>
stDisabledLower == <<"d", "i", "s", "a", "b", "l", "e", "d">>
stInactive == <<"I", "n", "a", "c", "t", "i", "v", "e">>
stDeactivated == <<"d", "e", "a", "c", "t", "i", "v", "a", "t", "e", "d">>
stSuspended == <<"S", "u", "s", "p", "e", "n", "d", "e", "d">>

\* the case labels of getUserStatus
lcActive == <<"a", "c", "t", "i", "v", "e">>
lcInactive == <<"i", "n", "a", "c", "t", "i", "v", "e">>
lcDeactivated == <<"d", "e", "a", "c", "t", "i", "v", "a", "t", "e", "d">>

\* v2.UserTrait_Status_Status
STATUS_ENABLED == "STATUS_ENABLED"
STATUS_DISABLED == "STATUS_DISABLED"
STATUS_UNSPECIFIED == "STATUS_UNSPECIFIED"

\* resource.NewUserResource(name, userResourceType, id, traits): the id and
\* the status trait
NewUserResource(name, id, status) ==
    [Id |-> [ResourceType |-> userResourceTypeId, Resource |-> id],
     DisplayName |-> name, Status |-> status]

\* parseIntoUserResource: the switch on user.UserStatus compares the text
\* as it is
parseIntoUserResource(user) ==
    LET userStatus ==
            CASE user.UserStatus = stActive -> STATUS_ENABLED
              [] user.UserStatus \in {stDisabled, stClosed, stActivationRequired, stActivationSent}
                    -> STATUS_DISABLED
              [] OTHER -> STATUS_UNSPECIFIED
    IN NewUserResource(user.UserName, user.UserId, userStatus)

\* getUserStatus: the switch on strings.ToLower(status)
getUserStatus(status) ==
    CASE ToLower(status) = lcActive -> STATUS_ENABLED
      [] ToLower(status) \in {lcInactive, lcDeactivated} -> STATUS_DISABLED
      [] OTHER -> STATUS_UNSPECIFIED

\* createUserResource of permissionBuilder.Grants
createUserResource(user) ==
    NewUserResource(user.UserName, user.UserID, getUserStatus(user.UserStatus))

\* reactions of the provider to a create-users request: failure, a response
\* without users, a user with error details, or a created user with a status
CreateOracles ==
    {[fail |-> TRUE, kind |-> "none", status |-> sEmpty],
     [fail |-> FALSE, kind |-> "none", status |-> sEmpty],
     [fail |-> FALSE, kind |-> "rejected", status |-> sEmpty]}
        \cup {[fail |-> FALSE, kind |-> "created", status |-> st] :
                 st \in {stActive, stActivationSent, stSuspended}}

\* Client.CreateUsers: [err, created, rejected, reqs]
CreateUsers(request, oracle) ==
    IF Len(request.NewUsers) = 0
    THEN [err |-> TRUE, NewUsers |-> << >>, reqs |-> << >>]
    ELSE IF oracle.fail
    THEN [err |-> TRUE, NewUsers |-> << >>, reqs |-> <<request>>]
    ELSE [err |-> FALSE,
          NewUsers |-> IF oracle.kind = "none" THEN << >>
                       ELSE [k \in DOMAIN request.NewUsers |->
                               [UserId |-> UserIdAt(k),
                                UserName |-> request.NewUsers[k].UserName,
                                Email |-> request.NewUsers[k].Email,
                                UserStatus |-> oracle.status,
                                ErrorDetails |-> oracle.kind = "rejected"]],
          reqs |-> <<request>>]

\* pMap[key].(string): the value and whether the key holds a string
AsString(pMap, key) ==
    IF key \in DOMAIN pMap /\ pMap[key].kind = "string"
    THEN [ok |-> TRUE, str |-> pMap[key].str]
    ELSE [ok |-> FALSE, str |-> sEmpty]

ComposeError(reqs) == [err |-> TRUE, resources |-> << >>, reqs |-> reqs]

\* CreateAccount that requires the username to be a string, not to be filled
CreateAccount_AcceptsEmptyUsername(pMap, oracle) ==
    LET email == AsString(pMap, "email")
        username == AsString(pMap, "username")
        usersRequest == [NewUsers |-> <<[UserName |-> username.str, Email |-> email.str]>>]
        createdUsers == CreateUsers(usersRequest, oracle)
    IN IF ~email.ok \/ email.str = sEmpty THEN ComposeError(<< >>)
       ELSE IF ~username.ok THEN ComposeError(<< >>)
       ELSE IF createdUsers.err THEN ComposeError(createdUsers.reqs)
       ELSE IF Len(createdUsers.NewUsers) = 0 THEN ComposeError(createdUsers.reqs)
       ELSE IF createdUsers.NewUsers[1].ErrorDetails THEN ComposeError(createdUsers.reqs)
       ELSE [err |-> FALSE,
             resources |-> <<parseIntoUserResource(createdUsers.NewUsers[1])>>,
             reqs |-> createdUsers.reqs]

\* userBuilder.CreateAccount
CreateAccount(pMap, oracle) ==
    LET email == AsString(pMap, "email")
        username == AsString(pMap, "username")
        usersRequest == [NewUsers |-> <<[UserName |-> username.str, Email |-> email.str]>>]
        createdUsers == CreateUsers(usersRequest, oracle)
    IN IF ~email.ok \/ email.str = sEmpty THEN ComposeError(<< >>)
       ELSE IF ~username.ok \/ username.str = sEmpty THEN ComposeError(<< >>)
       ELSE IF createdUsers.err THEN ComposeError(createdUsers.reqs)
       ELSE IF Len(createdUsers.NewUsers) = 0 THEN ComposeError(createdUsers.reqs)
       ELSE IF createdUsers.NewUsers[1].ErrorDetails THEN ComposeError(createdUsers.reqs)
       ELSE [err |-> FALSE,
             resources |-> <<parseIntoUserResource(createdUsers.NewUsers[1])>>,
             reqs |-> createdUsers.reqs]

(***************************************************************************)
(* The all-pages fetches of the client (client.go): GetUsers and GetGroups *)
(* loop over the pages of their endpoint, GetAllUsersWithDetails requests  *)
(* the details of every user GetUsers returned.  A fetch is a record       *)
(*   [op, pc, startPosition, allUsers, userDetails, err, result, reqs]     *)
(* whose pc says which request comes next.                                 *)
(***************************************************************************)
ErrNone == "nil"
ErrCancelled == "context canceled"
ErrProvider == "provider"

\* the outcomes of sending a request under a live context: a response, a
\* failure, or the context being cancelled while the request is out
DoOutcomes == {"response", "failure", "interrupted"}

\* wrapper.Do(req) for a request made with ctx: a cancelled context yields
\* its error and nothing is sent; [err, sent, cancels]
WrapperDo(ctxDone, outcome) ==
    IF ctxDone THEN [err |-> ErrCancelled, sent |-> FALSE, cancels |-> FALSE]
    ELSE CASE outcome = "response" -> [err |-> ErrNone, sent |-> TRUE, cancels |-> FALSE]
           [] outcome = "failure" -> [err |-> ErrProvider, sent |-> TRUE, cancels |-> FALSE]
           [] OTHER -> [err |-> ErrCancelled, sent |-> TRUE, cancels |-> TRUE]

\* Client.doRequest: build the request with ctx, hand it to the wrapper,
\* return its error; [err, reqs, cancels]
doRequest(ctxDone, url, outcome) ==
    LET r == WrapperDo(ctxDone, outcome)
    IN [err |-> r.err, reqs |-> IF r.sent THEN <<url>> ELSE << >>, cancels |-> r.cancels]

IdleFetch ==
    [op |-> "none", pc |-> "idle", startPosition |-> 0, allUsers |-> << >>,
     userDetails |-> << >>, err |-> ErrNone, result |-> << >>, reqs |-> << >>]

\* the URL of one page of the endpoint a fetch walks; the provider serves
\* MaxPageItems a page
PageURL(op, startPosition) ==
    [endpoint |-> IF op = "GetGroups" THEN <<"groups">> ELSE <<"users">>,
     start_position |-> startPosition, count |-> MaxPageItems]

DetailsURL(userID) == [endpoint |-> <<"users", userID>>, start_position |-> 0, count |-> 1]

\* the return of a fetch with an error: no list
FetchFails(f, err, reqs) ==
    [f EXCEPT !.pc = "done", !.err = err, !.result = << >>, !.reqs = f.reqs \o reqs]

\* GetAllUsersWithDetails after GetUsers returned users: the loop over the
\* users starts, or there is none and the empty list is returned
AfterGetUsers(f, users, reqs) ==
    IF f.op # "GetAllUsersWithDetails" \/ Len(users) = 0
    THEN [f EXCEPT !.pc = "done", !.allUsers = users, !.result = users, !.reqs = f.reqs \o reqs]
    ELSE [f EXCEPT !.pc = "details", !.allUsers = users, !.reqs = f.reqs \o reqs]

\* variant: a failed page request ends the loop like the last page does
GetUsersPage_BreaksOnError(f, d, response) ==
    IF d.err # ErrNone THEN AfterGetUsers(f, f.allUsers, d.reqs)
    ELSE IF response.Page.EndPosition + 1 >= response.Page.TotalSetSize
    THEN AfterGetUsers(f, f.allUsers \o response.items, d.reqs)
    ELSE [f EXCEPT !.allUsers = f.allUsers \o response.items,
                   !.startPosition = response.Page.EndPosition + 1,
                   !.reqs = f.reqs \o d.reqs]

\* one turn of the loop of GetUsers or GetGroups, d being what doRequest returned and
\* response the page the provider served
GetUsersPage(f, d, response) ==
    IF d.err # ErrNone THEN FetchFails(f, d.err, d.reqs)
    ELSE IF response.Page.EndPosition + 1 >= response.Page.TotalSetSize
    THEN AfterGetUsers(f, f.allUsers \o response.items, d.reqs)
    ELSE [f EXCEPT !.allUsers = f.allUsers \o response.items,
                   !.startPosition = response.Page.EndPosition + 1,
                   !.reqs = f.reqs \o d.reqs]

\* the detail the provider holds of a user
DetailOf(user) == [UserID |-> user]

\* variant: a failed detail request ends the loop with the details so far
GetUserDetailsTurn_ReturnsPartial(f, d) ==
    LET user == f.allUsers[Len(f.userDetails) + 1]
        userDetails == Append(f.userDetails, DetailOf(user))
    IN IF d.err # ErrNone
       THEN [f EXCEPT !.pc = "done", !.result = f.userDetails, !.reqs = f.reqs \o d.reqs]
       ELSE IF Len(userDetails) = Len(f.allUsers)
       THEN [f EXCEPT !.pc = "done", !.userDetails = userDetails, !.result = userDetails,
                      !.reqs = f.reqs \o d.reqs]
       ELSE [f EXCEPT !.userDetails = userDetails, !.reqs = f.reqs \o d.reqs]

\* one turn of the loop of GetAllUsersWithDetails over the users
GetUserDetailsTurn(f, d) ==
    LET user == f.allUsers[Len(f.userDetails) + 1]
        userDetails == Append(f.userDetails, DetailOf(user))
    IN IF d.err # ErrNone THEN FetchFails(f, d.err, d.reqs)
       ELSE IF Len(userDetails) = Len(f.allUsers)
       THEN [f EXCEPT !.pc = "done", !.userDetails = userDetails, !.result = userDetails,
                      !.reqs = f.reqs \o d.reqs]
       ELSE [f EXCEPT !.userDetails = userDetails, !.reqs = f.reqs \o d.reqs]

(***************************************************************************)
(* Rate-limit annotations (helper.go DoRequestCommon and its callers).     *)
(* An outcome of one request is [failed, desc]: wrapper.Do returned an     *)
(* error, or a response whose headers hold the rate-limit description desc *)
(* ("none" when ExtractRateLimitData finds none).                          *)
(***************************************************************************)
RequestOutcomes ==
    {[failed |-> TRUE, desc |-> "none"]}
        \cup [failed : {FALSE}, desc : {"none", "remaining-9", "remaining-1", "remaining-0"}]

\* DoRequestCommon: [err, ann]
DoRequestCommon(o) ==
    IF o.failed THEN [err |-> TRUE, ann |-> << >>]
    ELSE [err |-> FALSE, ann |-> IF o.desc = "none" THEN << >> ELSE <<o.desc>>]

\* a client function of one request (GetUsers, GetGroups, GetGroupUsers of
\* one page, GetUserDetails): [err, annos, reqs]
OneRequest(url, o) ==
    [err |-> DoRequestCommon(o).err, annos |-> DoRequestCommon(o).ann, reqs |-> <<url>>]

\* the all-pages loop of GetUsers from startPosition on, outs[k] being the
\* outcome of its next request: [err, items, annos, reqs, k]
RECURSIVE AllPages(_, _, _, _)
AllPages(startPosition, n, outs, k) ==
    LET url == PageURL("GetUsers", startPosition)
        d == DoRequestCommon(outs[k])
        response == ProviderServe(url, n, [fail |-> FALSE, emptyEnd |-> "zero"])
    IN IF d.err
       THEN [err |-> TRUE, items |-> << >>, annos |-> d.ann, reqs |-> <<url>>, k |-> k + 1]
       ELSE IF response.Page.EndPosition + 1 >= response.Page.TotalSetSize
       THEN [err |-> FALSE, items |-> response.items, annos |-> d.ann, reqs |-> <<url>>, k |-> k + 1]
       ELSE LET rest == AllPages(response.Page.EndPosition + 1, n, outs, k + 1)
            IN IF rest.err THEN [rest EXCEPT !.reqs = <<url>> \o rest.reqs]
               ELSE [rest EXCEPT !.items = response.items \o rest.items,
                                 !.annos = d.ann \o rest.annos,
                                 !.reqs = <<url>> \o rest.reqs]

\* the loop of GetAllUsersWithDetails over users[i..], annos being the
\* annotations collected so far: [err, annos, reqs]
RECURSIVE AllDetails(_, _, _, _, _)
AllDetails(users, i, annos, outs, k) ==
    IF i > Len(users) THEN [err |-> FALSE, annos |-> annos, reqs |-> << >>]
    ELSE LET one == OneRequest(DetailsURL(users[i]), outs[k])
             rest == AllDetails(users, i + 1, annos \o one.annos, outs, k + 1)
         IN IF one.err THEN [err |-> TRUE, annos |-> annos, reqs |-> one.reqs]
            ELSE [rest EXCEPT !.reqs = one.reqs \o rest.reqs]

\* Client.GetAllUsersWithDetails over a provider of n users
AllUsersWithDetails(n, outs) ==
    LET users == AllPages(0, n, outs, 1)
    IN IF users.err THEN [err |-> TRUE, annos |-> users.annos, reqs |-> users.reqs]
       ELSE LET details == AllDetails(users.items, 1, users.annos, outs, users.k)
            IN [details EXCEPT !.reqs = users.reqs \o details.reqs]

\* what a handler returns of (annotations, err) given what its client
\* function returned: on an error the annotations are nil
HandlerAnnotations(r) ==
    IF r.err THEN [err |-> TRUE, annos |-> << >>, reqs |-> r.reqs]
    ELSE [err |-> FALSE, annos |-> r.annos, reqs |-> r.reqs]

\* the requests a fetch over n users needs: its pages, then its details
RequestsNeeded(n) ==
    (IF n = 0 THEN 1 ELSE (n + MaxPageItems - 1) \div MaxPageItems) + n

\* the rate-limit descriptions of the responses among the first k outcomes
RECURSIVE ReceivedIn(_, _)
ReceivedIn(outs, k) ==
    IF k = 0 THEN << >>
    ELSE ReceivedIn(outs, k - 1)
            \o (IF outs[k].failed \/ outs[k].desc = "none" THEN << >> ELSE <<outs[k].desc>>)

(***************************************************************************)
(* List called through its *pagination.Token parameter, which may be nil.  *)
(* A result is [panic, err, resources, token, reqs].                       *)
(***************************************************************************)
NilToken == [nil |-> TRUE, Token |-> EmptyStr, Size |-> 0]

TokenPtr(token, size) == [nil |-> FALSE, Token |-> token, Size |-> size]

\* the runtime panic of a nil pointer dereference
Panicked ==
    [panic |-> TRUE, err |-> FALSE, resources |-> << >>, token |-> EmptyStr, reqs |-> << >>]

Returned(r) ==
    [panic |-> FALSE, err |-> r.err, resources |-> r.resources, token |-> r.token, reqs |-> r.reqs]

\* List of the paged builders: pToken.Token and pToken.Size are read
\* without a test of pToken
PagedList(builder, pToken, n, oracle) ==
    IF pToken.nil THEN Panicked
    ELSE Returned(IF builder = "userBuilder"
                  THEN userBuilderList(pToken.Token, pToken.Size, n, oracle)
                  ELSE groupBuilderList(pToken.Token, pToken.Size, n, oracle))

\* List of the builders over the all-pages client: pToken is not read
AllPagesList(builder, pToken, n, oracle) ==
    LET r == AllPages(0, n, [k \in 1..(n + 1) |-> [failed |-> oracle.fail, desc |-> "none"]], 1)
    IN IF r.err
       THEN [panic |-> FALSE, err |-> TRUE, resources |-> << >>, token |-> EmptyStr, reqs |-> r.reqs]
       ELSE [panic |-> FALSE, err |-> FALSE,
             resources |-> [k \in DOMAIN r.items |->
                               ResourceOf(IF builder = "userBuilder" THEN userResourceTypeId
                                          ELSE groupResourceTypeId, r.items[k])],
             token |-> EmptyStr, reqs |-> r.reqs]

(***************************************************************************)
(* Inputs of the paged handlers: the token and page size of the caller.    *)
(***************************************************************************)
PageSizes == {0, 1, 2}

GroupIDs == {"g1"}

\* provider cursors inside externally supplied stacks
CursorInputs == {EmptyStr, GarbageStr, FlatStr(IntToDigits(1))}

ScopeInputs == {<<userResourceTypeId, "">>, <<groupResourceTypeId, "">>, <<groupResourceTypeId, "g1">>}

\* active entries of externally supplied stacks: every cursor under the
\* handlers' own scope, and a resumable cursor under every other scope
TopEntries ==
    {[token |-> c, type |-> userResourceTypeId, id |-> ""] : c \in CursorInputs}
        \cup {[token |-> FlatStr(IntToDigits(1)), type |-> sc[1], id |-> sc[2]] : sc \in ScopeInputs}

LowerEntries == { [token |-> FlatStr(IntToDigits(1)), type |-> groupResourceTypeId, id |-> ""] }

RECURSIVE LowerStacks(_)
LowerStacks(n) ==
    IF n = 0 THEN {<< >>}
    ELSE LowerStacks(n - 1) \cup {Append(st, e) : st \in LowerStacks(n - 1), e \in LowerEntries}

\* tokens a caller may supply: empty, undecodable, JSON without an active
\* entry, and stacks of up to MaxDepth entries
TokenInputs ==
    {EmptyStr, GarbageStr, BagStr(<< >>, << >>), FlatStr(IntToDigits(0))}
        \cup {BagStr(lower, <<top>>) : lower \in LowerStacks(MaxDepth - 1), top \in TopEntries}

(***************************************************************************)
(* State.                                                                  *)
(***************************************************************************)
VARIABLES
    value,      \* the value last handed to checkPermissionValue
    cpv,        \* its result: << >> before any call, <<[ok, level]>> after
    account,    \* the user details the provider holds
    gcall,      \* the last grant handler called: [op, user, orders]
    gret,       \* what it returned: [grants, token, err]
    total,      \* the number of items the provider holds per endpoint
    call,       \* the last paged handler called: [op, group, token, size]
    ret,        \* what it returned and did
    walk        \* TRUE while the calls form a token-driven walk

VARIABLES
    fcall,      \* the last flat-token function applied: [op, page, start, token]
    fret        \* what it returned: [token, pt, err]

VARIABLES
    ccall,      \* the last user-resource operation called: [op, status, profile, users]
    cret        \* what it returned: [err, resources, reqs]

VARIABLES
    ents        \* the entitlements permissionBuilder.Entitlements last listed

VARIABLES
    ctx,        \* TRUE once the context of the running fetch is cancelled
    fetch       \* the all-pages fetch in progress or returned

VARIABLES
    acall,      \* the last handler called for its annotations: [op, n, outs]
    aret        \* what it returned: [err, annos, reqs]

VARIABLES
    lcall,      \* the last List called through a token pointer: [builder, client, pToken, n, oracle]
    lret        \* what became of it: [panic, err, resources, token, reqs]

VARIABLES
    wk,         \* a caller walking a List by its tokens: [pc, builder, size, emptyEnd, token,
                \* prev, starts, items]
    turn        \* the parity of the number of calls the walk has made

VARIABLES
    dcall,      \* the derivations made last for one user of the account: [user, orders],
                \* orders being the map iteration order of each
    dret        \* the grants each returned

vars == <<value, cpv, account, gcall, gret, total, call, ret, walk, fcall, fret, ccall, cret, ents,
          ctx, fetch, acall, aret, lcall, lret, wk, turn,
          dcall, dret>>

flatVars == <<fcall, fret>>
composeVars == <<ccall, cret>>
entVars == <<ents>>
fetchVars == <<ctx, fetch>>
annoVars == <<acall, aret>>
listVars == <<lcall, lret>>
walkVars == <<wk, turn>>
deriveVars == <<dcall, dret>>

\* the variables of the walk and of what follows it
lastVars == <<walkVars, deriveVars>>

\* the variables of the components added last
laterVars == <<annoVars, listVars, lastVars>>

\* the variables of the components added after the first three
restVars == <<flatVars, composeVars, entVars, fetchVars, laterVars>>

valueVars == <<value, cpv>>
grantVars == <<account, gcall, gret>>
pageVars == <<total, call, ret, walk>>

UserScope == [ResourceType |-> userResourceTypeId, Resource |-> ""]

NoCall == [op |-> "none", group |-> "", scope |-> UserScope, token |-> EmptyStr, size |-> 0]
NoRet == HandlerOk(<< >>, EmptyStr, [err |-> FALSE, bag |-> EmptyBag, pageToken |-> EmptyStr], NoFetch, << >>)
NoGCall == [op |-> "none", user |-> 0, orders |-> << >>]
NoGRet == [grants |-> << >>, token |-> EmptyStr, err |-> FALSE]

InitValue == value = JNull /\ cpv = << >>
InitGrants(accounts) == account \in accounts /\ gcall = NoGCall /\ gret = NoGRet
InitPage(totals) == total \in totals /\ call = NoCall /\ ret = NoRet /\ walk = FALSE

\* position triples of provider responses: non-negative, the page starting
\* at 0 or being a single item
PageOf(start, end, totalSetSize) ==
    [ResultSetSize |-> IF end >= start THEN end - start + 1 ELSE 0,
     TotalSetSize |-> totalSetSize, StartPosition |-> start, EndPosition |-> end]

PageInputs ==
    {PageOf(st, e, t) : st \in {0}, e \in 0..MaxPos, t \in 0..MaxPos}
        \cup {PageOf(e, e, t) : e \in 0..MaxPos, t \in 0..MaxPos}
        \cup {PageOf(0, 49, 120), PageOf(50, 99, 120), PageOf(100, 119, 120)}

StartInputs == 0..MaxPos \cup {50, 100, 120}

NoFCall == [op |-> "none", page |-> PageOf(0, 0, 0), start |-> 0, token |-> EmptyStr]
NoFRet == [token |-> EmptyStr, pt |-> [StartPosition |-> 0], err |-> FALSE]

InitFlat == fcall = NoFCall /\ fret = NoFRet

\* the statuses a provider user carries
StatusInputs ==
    {sEmpty, stActive, stDisabled, stClosed, stActivationRequired, stActivationSent,
     stActiveLower, stActiveUpper, stDisabledLower, stInactive, stDeactivated, stSuspended}

sEmail == <<"a", "@", "x">>
sUserName == <<"a", "l">>

\* the profile of an account to create: each of email and username missing,
\* not a string, empty or filled
ProfileInputs ==
    UNION {[keys -> {JNumber(sOne), JString(sEmpty), JString(sEmail), JString(sUserName)}] :
              keys \in SUBSET {"email", "username"}}

NoProfile == [k \in {} |-> JNull]

NoCCall == [op |-> "none", status |-> sEmpty, profile |-> NoProfile, users |-> 0]
NoCRet == [err |-> FALSE, resources |-> << >>, reqs |-> << >>]

InitCompose == ccall = NoCCall /\ cret = NoCRet

InitEnts == ents = << >>

InitFetch == ctx = FALSE /\ fetch = IdleFetch

NoACall == [op |-> "none", n |-> 0, outs |-> << >>]
NoARet == [err |-> FALSE, annos |-> << >>, reqs |-> << >>]

InitAnnos == acall = NoACall /\ aret = NoARet

NoLCall == [builder |-> "none", client |-> "none", pToken |-> NilToken, n |-> 0,
            oracle |-> [fail |-> FALSE, emptyEnd |-> "zero"]]
NoLRet == [panic |-> FALSE, err |-> FALSE, resources |-> << >>, token |-> EmptyStr, reqs |-> << >>]

InitList == lcall = NoLCall /\ lret = NoLRet

\* no walk has started
NoWalk ==
    [pc |-> "idle", builder |-> "userBuilder", size |-> 0, emptyEnd |-> "zero", token |-> EmptyStr,
     prev |-> [called |-> FALSE, start |-> 0, end |-> 0], starts |-> << >>, items |-> << >>]

InitWalk == wk = NoWalk /\ turn = 0

NoDCall == [user |-> 0, orders |-> << >>]

InitDerive == dcall = NoDCall /\ dret = << >>

InitRest ==
    InitFlat /\ InitCompose /\ InitEnts /\ InitFetch /\ InitAnnos /\ InitList /\ InitWalk
        /\ InitDerive

(***************************************************************************)
(* Actions of the value-acceptance predicate.                              *)
(***************************************************************************)
CheckPermissionValue ==
    \E v \in JSONValues :
        /\ value' = v
        /\ cpv' = <<checkPermissionValue(v)>>
        /\ UNCHANGED <<grantVars, pageVars, restVars>>

(***************************************************************************)
(* Actions of the grant handlers.                                          *)
(***************************************************************************)
\* userBuilder.Grants: fetch the details of one user, derive its grants
UserGrants ==
    \E i \in DOMAIN account, fail \in BOOLEAN :
        /\ gcall' = [op |-> "userBuilder.Grants", user |-> i, orders |-> << >>]
        /\ gret' = IF fail THEN [grants |-> << >>, token |-> EmptyStr, err |-> TRUE]
                   ELSE [grants |-> createUserGrants(account[i]), token |-> EmptyStr, err |-> FALSE]
        /\ UNCHANGED <<account, valueVars, pageVars, restVars>>

\* variant: each user's grants put in front of the grants collected so far
RECURSIVE ConcatGrants_NewestFirst(_, _, _)
ConcatGrants_NewestFirst(i, perUser, orders) ==
    IF i > Len(perUser) THEN << >>
    ELSE ConcatGrants_NewestFirst(i + 1, perUser, orders) \o perUser[i][orders[i]]

\* concatenation of the users' grants, in user order; perUser[i][o] holds
\* the grants of user i under map order o
RECURSIVE ConcatGrants(_, _, _)
ConcatGrants(i, perUser, orders) ==
    IF i > Len(perUser) THEN << >>
    ELSE perUser[i][orders[i]] \o ConcatGrants(i + 1, perUser, orders)

\* permissionBuilder.Grants: fetch all users with details, derive each
\* user's grants.  With processUserPermissions the Go map is iterated in
\* some order for each user; with createUserGrants the table is walked in
\* its own order.
PermissionGrants ==
    /\ \/ /\ gcall' = [op |-> "permissionBuilder.Grants", user |-> 0, orders |-> << >>]
          /\ gret' = [grants |-> << >>, token |-> EmptyStr, err |-> TRUE]
       \/ \E perUser \in {[i \in DOMAIN account |->
                                [o \in MapOrders |-> processUserPermissions(account[i], o)]]} :
             \E orders \in [DOMAIN account -> MapOrders] :
                /\ gcall' = [op |-> "permissionBuilder.Grants", user |-> 0, orders |-> orders]
                /\ gret' = [grants |-> ConcatGrants(1, perUser, orders), token |-> EmptyStr, err |-> FALSE]
       \/ \E perUser \in {[i \in DOMAIN account |-> <<createUserGrants(account[i])>>]} :
             /\ gcall' = [op |-> "permissionBuilder.Grants", user |-> 0, orders |-> << >>]
             /\ gret' = [grants |-> ConcatGrants(1, perUser, [i \in DOMAIN account |-> 1]),
                         token |-> EmptyStr, err |-> FALSE]
    /\ UNCHANGED <<account, valueVars, pageVars, restVars>>

\* permissionBuilder.Entitlements of the permission singleton that
\* permissionBuilder.List returned
PermissionEntitlements ==
    /\ ents' = Entitlements(permissionResourceID)
    /\ UNCHANGED <<valueVars, grantVars, pageVars, flatVars, composeVars, fetchVars, laterVars>>

(***************************************************************************)
(* Actions of the paged handlers.  The caller passes any token of          *)
(* TokenInputs or the token the previous call returned.                    *)
(***************************************************************************)
TokenChoices == TokenInputs \cup {ret.token}

\* a call continues a walk when it starts one (empty token) or passes on the
\* token the previous, successful call of the same handler returned
Continues(c) ==
    \/ c.token = EmptyStr
    \/ /\ walk /\ ~ret.err
       /\ c.op = call.op /\ c.group = call.group
       /\ c.token = ret.token

Handle(c, r) ==
    /\ call' = c
    /\ ret' = r
    /\ walk' = Continues(c)
    /\ UNCHANGED <<total, valueVars, grantVars, restVars>>

UserList ==
    \E tok \in TokenChoices, size \in PageSizes, oracle \in Oracles :
        Handle([op |-> "userBuilder.List", group |-> "", scope |-> UserScope, token |-> tok, size |-> size],
               userBuilderList(tok, size, total, oracle))

GroupList ==
    \E tok \in TokenChoices, size \in PageSizes, oracle \in Oracles :
        Handle([op |-> "groupBuilder.List", group |-> "", scope |-> UserScope, token |-> tok, size |-> size],
               groupBuilderList(tok, size, total, oracle))

GroupGrants ==
    \E g \in GroupIDs, tok \in TokenChoices, size \in PageSizes, oracle \in Oracles :
        Handle([op |-> "groupBuilder.Grants", group |-> g, scope |-> UserScope, token |-> tok, size |-> size],
               groupBuilderGrants(g, tok, size, total, oracle))

\* parsePageToken applied on its own, as the callers that inspect a returned
\* token do, for any requested scope
ParsePageToken ==
    \E tok \in TokenChoices, sc \in ScopeInputs :
        LET scope == [ResourceType |-> sc[1], Resource |-> sc[2]]
            p == parsePageToken(tok, scope)
        IN /\ call' = [op |-> "parsePageToken", group |-> "", scope |-> scope, token |-> tok, size |-> 0]
           /\ ret' = IF p.err THEN HandlerError(p, NoFetch, << >>)
                      ELSE HandlerOk(<< >>, EmptyStr, p, NoFetch, << >>)
           /\ walk' = FALSE
           /\ UNCHANGED <<total, valueVars, grantVars, restVars>>

(***************************************************************************)
(* Actions of the flat page token (pkg/client/helper.go).                  *)
(***************************************************************************)
ApplyGetNextToken ==
    \E page \in PageInputs :
        /\ fcall' = [op |-> "GetNextToken", page |-> page, start |-> 0, token |-> EmptyStr]
        /\ fret' = [token |-> GetNextToken(page), pt |-> [StartPosition |-> 0], err |-> FALSE]
        /\ UNCHANGED <<valueVars, grantVars, pageVars, composeVars, entVars, fetchVars, laterVars>>

ApplyEncodePageToken ==
    \E st \in StartInputs :
        /\ fcall' = [op |-> "EncodePageToken", page |-> PageOf(0, 0, 0), start |-> st, token |-> EmptyStr]
        /\ fret' = [token |-> EncodePageToken([StartPosition |-> st]),
                    pt |-> [StartPosition |-> st], err |-> FALSE]
        /\ UNCHANGED <<valueVars, grantVars, pageVars, composeVars, entVars, fetchVars, laterVars>>

\* DecodePageToken of the empty token, of text that is no token, of a
\* serialized stack, or of the token the previous function returned
ApplyDecodePageToken ==
    \E tok \in {EmptyStr, GarbageStr, BagStr(<< >>, << >>), fret.token} :
        /\ fcall' = [op |-> "DecodePageToken", page |-> PageOf(0, 0, 0), start |-> 0, token |-> tok]
        /\ fret' = [token |-> EmptyStr, pt |-> DecodePageToken(tok).pt, err |-> DecodePageToken(tok).err]
        /\ UNCHANGED <<valueVars, grantVars, pageVars, composeVars, entVars, fetchVars, laterVars>>

(***************************************************************************)
(* Actions composing user resources and creating accounts.                 *)
(***************************************************************************)
\* userBuilder.List and Grants compose each user with parseIntoUserResource
CallParseIntoUserResource ==
    \E k \in 1..MaxUsers, st \in StatusInputs :
        /\ ccall' = [op |-> "parseIntoUserResource", status |-> st, profile |-> NoProfile, users |-> 0]
        /\ cret' = [err |-> FALSE,
                    resources |-> <<parseIntoUserResource(
                        [UserId |-> UserIdAt(k), UserName |-> sUserName, UserStatus |-> st])>>,
                    reqs |-> << >>]
        /\ UNCHANGED <<valueVars, grantVars, pageVars, flatVars, entVars, fetchVars, laterVars>>

\* permissionBuilder.Grants composes each user with createUserResource
CallCreateUserResource ==
    \E k \in 1..MaxUsers, st \in StatusInputs :
        /\ ccall' = [op |-> "createUserResource", status |-> st, profile |-> NoProfile, users |-> 0]
        /\ cret' = [err |-> FALSE,
                    resources |-> <<createUserResource(
                        [UserID |-> UserIdAt(k), UserName |-> sUserName, UserStatus |-> st])>>,
                    reqs |-> << >>]
        /\ UNCHANGED <<valueVars, grantVars, pageVars, flatVars, entVars, fetchVars, laterVars>>

CallCreateAccount ==
    \E pMap \in ProfileInputs, oracle \in CreateOracles :
        /\ ccall' = [op |-> "CreateAccount", status |-> oracle.status, profile |-> pMap, users |-> 1]
        /\ cret' = CreateAccount(pMap, oracle)
        /\ UNCHANGED <<valueVars, grantVars, pageVars, flatVars, entVars, fetchVars, laterVars>>

\* Client.CreateUsers with a list of 0..MaxNewUsers users
CallCreateUsers ==
    \E n \in 0..MaxNewUsers, oracle \in CreateOracles :
        /\ ccall' = [op |-> "CreateUsers", status |-> oracle.status, profile |-> NoProfile, users |-> n]
        /\ \E r \in {CreateUsers([NewUsers |-> [k \in 1..n |-> [UserName |-> sUserName, Email |-> sEmail]]], oracle)} :
              cret' = [err |-> r.err,
                       resources |-> [k \in DOMAIN r.NewUsers |-> parseIntoUserResource(r.NewUsers[k])],
                       reqs |-> r.reqs]
        /\ UNCHANGED <<valueVars, grantVars, pageVars, flatVars, entVars, fetchVars, laterVars>>

(***************************************************************************)
(* Actions of the all-pages fetches.  The caller starts a fetch with a     *)
(* context and may cancel it at any moment; every other step is one        *)
(* request of the fetch together with the code up to the next request.     *)
(***************************************************************************)
otherThanFetch ==
    <<valueVars, grantVars, call, ret, walk, flatVars, composeVars, entVars, laterVars>>

StartFetch ==
    /\ fetch.pc \in {"idle", "done"}
    /\ \E op \in {"GetUsers", "GetGroups", "GetAllUsersWithDetails"} :
          fetch' = [IdleFetch EXCEPT !.op = op, !.pc = "users"]
    /\ ctx' \in BOOLEAN
    /\ UNCHANGED <<total, otherThanFetch>>

Cancel ==
    /\ fetch.pc \in {"users", "details"}
    /\ ~ctx
    /\ ctx' = TRUE
    /\ UNCHANGED <<fetch, total, otherThanFetch>>

RequestUsersPage ==
    /\ fetch.pc = "users"
    /\ \E outcome \in DoOutcomes :
          \E d \in {doRequest(ctx, PageURL(fetch.op, fetch.startPosition), outcome)} :
             /\ fetch' = GetUsersPage(fetch, d,
                            ProviderServe(PageURL(fetch.op, fetch.startPosition), total,
                                          [fail |-> FALSE, emptyEnd |-> "zero"]))
             /\ ctx' = (ctx \/ d.cancels)
    /\ UNCHANGED <<total, otherThanFetch>>

RequestUserDetails ==
    /\ fetch.pc = "details"
    /\ \E outcome \in DoOutcomes :
          \E d \in {doRequest(ctx, DetailsURL(fetch.allUsers[Len(fetch.userDetails) + 1]), outcome)} :
             /\ fetch' = GetUserDetailsTurn(fetch, d)
             /\ ctx' = (ctx \/ d.cancels)
    /\ UNCHANGED <<total, otherThanFetch>>

(***************************************************************************)
(* Actions returning annotations.                                          *)
(***************************************************************************)
earlierVars == <<valueVars, grantVars, pageVars, flatVars, composeVars, entVars, fetchVars>>

\* the handlers of one request: List of users and groups, Grants of a group
\* and of a user
PagedAnnotations ==
    \E op \in {"userBuilder.List", "groupBuilder.List", "groupBuilder.Grants", "userBuilder.Grants"},
       o \in RequestOutcomes :
        /\ acall' = [op |-> op, n |-> 0, outs |-> <<o>>]
        /\ aret' = HandlerAnnotations(OneRequest(
                        IF op = "userBuilder.Grants" THEN DetailsURL(0) ELSE PageURL(op, 0), o))
        /\ UNCHANGED <<earlierVars, listVars, lastVars>>

\* permissionBuilder.Grants over a provider of n users
PermissionGrantsAnnotations ==
    \E n \in 0..MaxUsers :
        \E outs \in [1..RequestsNeeded(n) -> RequestOutcomes] :
            /\ acall' = [op |-> "permissionBuilder.Grants", n |-> n, outs |-> outs]
            /\ aret' = HandlerAnnotations(AllUsersWithDetails(n, outs))
            /\ UNCHANGED <<earlierVars, listVars, lastVars>>

(***************************************************************************)
(* List called with a token pointer that is nil or holds the empty token.  *)
(***************************************************************************)
ListFromBeginning ==
    \E builder \in {"userBuilder", "groupBuilder"}, client \in {"paged", "allPages"},
       pToken \in {NilToken} \cup {TokenPtr(EmptyStr, size) : size \in PageSizes},
       n \in 0..MaxItems, oracle \in Oracles :
        /\ lcall' = [builder |-> builder, client |-> client, pToken |-> pToken, n |-> n,
                     oracle |-> oracle]
        /\ lret' = IF client = "paged" THEN PagedList(builder, pToken, n, oracle)
                   ELSE AllPagesList(builder, pToken, n, oracle)
        /\ UNCHANGED <<earlierVars, annoVars, lastVars>>

(***************************************************************************)
(* Two derivations of the grants of one user.  A Go map is iterated in an  *)
(* order that changes from one range statement to the next.                *)
(***************************************************************************)
Reversed(seq) == [i \in DOMAIN seq |-> seq[Len(seq) + 1 - i]]

IterationOrders == MapOrders \cup {Reversed(fieldToPermissionMappings)}

\* the grants of a user of the account are derived
DeriveFirst ==
    /\ Len(dcall.orders) # 1
    /\ \E i \in DOMAIN account, order \in IterationOrders :
        /\ dcall' = [user |-> i, orders |-> <<order>>]
        /\ dret' = <<processUserPermissions(account[i], order)>>
    /\ UNCHANGED <<earlierVars, annoVars, listVars, walkVars>>

\* they are derived once more, from the same record
DeriveAgain ==
    /\ Len(dcall.orders) = 1
    /\ \E order \in IterationOrders :
        /\ dcall' = [dcall EXCEPT !.orders = Append(@, order)]
        /\ dret' = Append(dret, processUserPermissions(account[dcall.user], order))
    /\ UNCHANGED <<earlierVars, annoVars, listVars, walkVars>>

(***************************************************************************)
(* The caller of List: it calls with the empty token, then with the token  *)
(* each call returned, until a call returns the empty token or an error.   *)
(* The provider serves every request of a walk; what it reports as the     *)
(* endPosition of a page without items is fixed for the walk.  The walk    *)
(* records the start positions requested and the resources returned, up to *)
(* MaxLog entries each.                                                    *)
(***************************************************************************)
MaxLog == MaxItems + 2

Logged(log, more) == SubSeq(log \o more, 1, Min(Len(log) + Len(more), MaxLog))

BuilderList(builder, token, size, n, oracle) ==
    IF builder = "userBuilder" THEN userBuilderList(token, size, n, oracle)
    ELSE groupBuilderList(token, size, n, oracle)

\* the walk after List returned r, page being the position triple of the
\* response; prev keeps the start position requested and the endPosition
\* received
Walked(w, r, page) ==
    [w EXCEPT !.pc = IF r.token = EmptyStr THEN "done" ELSE "walking",
              !.token = r.token,
              !.prev = [called |-> TRUE, start |-> r.reqs[1].start_position,
                        end |-> page.EndPosition],
              !.starts = Logged(@, <<r.reqs[1].start_position>>),
              !.items = Logged(@, r.resources)]

StartWalk ==
    /\ wk.pc # "walking"
    /\ \E builder \in {"userBuilder", "groupBuilder"}, size \in PageSizes,
          emptyEnd \in {"zero", "before", "start"} :
            wk' = [NoWalk EXCEPT !.pc = "walking", !.builder = builder, !.size = size,
                                 !.emptyEnd = emptyEnd]
    /\ turn' = 0
    /\ UNCHANGED <<earlierVars, annoVars, listVars, deriveVars>>

WalkCall ==
    /\ wk.pc = "walking"
    /\ \E oracle \in {[fail |-> FALSE, emptyEnd |-> wk.emptyEnd]} :
         \E r \in {BuilderList(wk.builder, wk.token, wk.size, total, oracle)} :
            wk' = IF r.err THEN [wk EXCEPT !.pc = "failed"]
                  ELSE Walked(wk, r, ProviderServe(r.reqs[1], total, oracle).Page)
    /\ turn' = 1 - turn
    /\ UNCHANGED <<earlierVars, annoVars, listVars, deriveVars>>

(***************************************************************************)
(* Specifications: one per component.                                      *)
(***************************************************************************)
InitIdle == InitValue /\ InitGrants({<< >>}) /\ InitPage({0}) /\ InitRest

\* the value-acceptance predicate on its own
SpecValue == InitIdle /\ [][CheckPermissionValue]_vars

\* grant derivation over the accounts the provider may hold
NextGrants == UserGrants \/ PermissionGrants \/ PermissionEntitlements

InitAccounts == InitValue /\ InitGrants(Accounts) /\ InitPage({0}) /\ InitRest

SpecGrants == InitAccounts /\ [][NextGrants]_vars

\* the pagination protocol over the providers of up to MaxItems items
NextPage == UserList \/ GroupList \/ GroupGrants \/ ParsePageToken

InitProvider == InitValue /\ InitGrants({<< >>}) /\ InitPage(0..MaxItems) /\ InitRest

SpecPage == InitProvider /\ [][NextPage]_vars

\* the flat page token on its own
NextFlat == ApplyGetNextToken \/ ApplyEncodePageToken \/ ApplyDecodePageToken

SpecFlat == InitIdle /\ [][NextFlat]_vars

\* user resources and account creation
NextCompose ==
    CallParseIntoUserResource \/ CallCreateUserResource \/ CallCreateAccount \/ CallCreateUsers

SpecCompose == InitIdle /\ [][NextCompose]_vars

\* the all-pages fetches under a context the caller may cancel
NextFetch == StartFetch \/ Cancel \/ RequestUsersPage \/ RequestUserDetails

SpecFetch == InitProvider /\ [][NextFetch]_vars

\* the annotations the handlers return
NextAnnos == PagedAnnotations \/ PermissionGrantsAnnotations

SpecAnnos == InitIdle /\ [][NextAnnos]_vars

\* List from the beginning
SpecList == InitIdle /\ [][ListFromBeginning]_vars

\* the walk of a List by its tokens
NextWalk == StartWalk \/ WalkCall

\* the steps of NextWalk that are calls of a walk: WalkCall is the only
\* action that leaves a walking state, and it flips turn
WalkTurn == wk.pc = "walking" /\ turn' = 1 - turn

\* the caller goes on calling while it holds a token, and every call returns
SpecWalk == InitProvider /\ [][NextWalk]_vars /\ WF_turn(WalkTurn)

\* grant derivation repeated
NextDerive == DeriveFirst \/ DeriveAgain

\* accounts of one user
InitOneUser == InitValue /\ InitGrants(AccountsOfLen(1)) /\ InitPage({0}) /\ InitRest

SpecDerive == InitOneUser /\ [][NextDerive]_vars

Init == InitValue /\ InitGrants(Accounts) /\ InitPage(0..MaxItems) /\ InitRest

Next == CheckPermissionValue \/ NextGrants \/ NextPage \/ NextFlat \/ NextCompose \/ NextFetch \/ NextAnnos \/ ListFromBeginning
            \/ NextWalk \/ NextDerive

Spec == Init /\ [][Next]_vars


(***************************************************************************)
(* Properties of the grant derivation.                                     *)
(***************************************************************************)
UserGrantsDone == gcall.op = "userBuilder.Grants" /\ ~gret.err

PermissionGrantsDone == gcall.op = "permissionBuilder.Grants" /\ ~gret.err

TablePermissionIDs == {fieldToPermissionMappings[i].PermissionID : i \in DOMAIN fieldToPermissionMappings}

CatalogIDs == {permissionDefinitions[i] : i \in DOMAIN permissionDefinitions}

\* the spellings whose lower-cased form is "true", "admin" or "share"
AcceptedSpellings == CaseVariants(sTrue) \cup CaseVariants(sAdmin) \cup CaseVariants(sShare)

\* grants gs hold a grant of permission P on the permission singleton for user U
HasGrant(gs, P, U) ==
    \E k \in DOMAIN gs :
        /\ gs[k].resource = permissionResourceID
        /\ gs[k].entitlement = P
        /\ gs[k].principal = [ResourceType |-> "user", Resource |-> U.UserID]

\* some row of the table maps a field of U's normalized settings, with an
\* accepted value, to permission P
RuleSatisfied(P, U) ==
    LET m == parseUserSettings(U.UserSettings)
    IN \E i \in DOMAIN fieldToPermissionMappings :
          /\ fieldToPermissionMappings[i].PermissionID = P
          /\ fieldToPermissionMappings[i].FieldName \in DOMAIN m
          /\ checkPermissionValue(m[fieldToPermissionMappings[i].FieldName]).ok

\* C1: createUserGrants emits a grant (permission singleton, P, U.id) exactly
\* for the permission ids P that some table row maps from a field of U's
\* normalized settings carrying an accepted value, and no other grant.
C1_GrantIffRuleSatisfied ==
    UserGrantsDone =>
        LET U == account[gcall.user]
        IN /\ \A P \in TablePermissionIDs \cup CatalogIDs \cup StringSettingTags \cup ObjectSettingTags :
                HasGrant(gret.grants, P, U) <=> RuleSatisfied(P, U)
           /\ \A k \in DOMAIN gret.grants :
                /\ gret.grants[k].entitlement \in TablePermissionIDs
                /\ gret.grants[k].resource = permissionResourceID
                /\ gret.grants[k].principal = [ResourceType |-> "user", Resource |-> U.UserID]

\* a derivation that grants some permissions and withholds others
C1_Witness ==
    /\ UserGrantsDone
    /\ HasGrant(gret.grants, "canManageAccount", account[gcall.user])
    /\ ~HasGrant(gret.grants, "adminOnly", account[gcall.user])
    /\ account[gcall.user].UserSettings["adminOnly"] = sFalse

UpperCaseLetters == {"A", "D", "E", "F", "H", "I", "L", "M", "N", "O", "R", "S", "T", "U"}

\* C2: checkPermissionValue returns, for a string, (its lower-cased form is
\* "true", "admin" or "share"; the lower-cased form); for boolean true,
\* (true, "true"); for boolean false, (false, "false"); for a number, an
\* object, an array or null, (false, "").
C2_CheckPermissionValueTable ==
    cpv # << >> =>
        LET r == cpv[1]
        IN /\ value.kind = "string" =>
                /\ r.ok <=> value.str \in AcceptedSpellings
                /\ value.str \in CaseVariants(r.level)
                /\ \A i \in DOMAIN r.level : r.level[i] \notin UpperCaseLetters
           /\ (value.kind = "bool" /\ value.b) => r = [ok |-> TRUE, level |-> sTrue]
           /\ (value.kind = "bool" /\ ~value.b) => r = [ok |-> FALSE, level |-> sFalse]
           /\ value.kind \in {"number", "object", "array", "null"} => r = [ok |-> FALSE, level |-> sEmpty]
           /\ value.kind \in {"string", "bool", "number", "object", "array", "null"}

\* a mixed-case accepted spelling was checked
C2_Witness ==
    /\ cpv # << >>
    /\ value = JString(sAdminCap)
    /\ cpv[1] = [ok |-> TRUE, level |-> sAdmin]

\* grants gs hold at most one grant per principal and permission id
OneGrantPerPermission(gs) ==
    \A k, l \in DOMAIN gs :
        (gs[k].entitlement = gs[l].entitlement /\ gs[k].principal = gs[l].principal) => k = l

Ambiguous(v) ==
    \/ v.kind \notin {"string", "bool"}
    \/ v.kind = "string" /\ v.str \notin AcceptedSpellings

\* the users whose grants the last handler derived
DerivedUsers ==
    IF UserGrantsDone THEN {account[gcall.user]}
    ELSE IF PermissionGrantsDone THEN {account[i] : i \in DOMAIN account}
    ELSE {}

\* C4: a settings field whose value is not a string or boolean, or is a
\* string outside "true"/"admin"/"share" in any case, never yields a grant
\* for the permission the field maps to.
C4_FailClosed ==
    \A U \in DerivedUsers :
        LET m == parseUserSettings(U.UserSettings)
        IN \A i \in DOMAIN fieldToPermissionMappings :
              LET row == fieldToPermissionMappings[i]
              IN (row.FieldName \in DOMAIN m /\ Ambiguous(m[row.FieldName]))
                    => ~HasGrant(gret.grants, row.PermissionID, U)

\* a field carrying the string "1" was withheld while another was granted
C4_Witness ==
    /\ UserGrantsDone
    /\ account[gcall.user].UserSettings["adminOnly"] = sOne
    /\ account[gcall.user].UserSettings["canManageAccount"] = sTrueCap
    /\ Len(gret.grants) = 1
    /\ gret.grants[1].entitlement = "canManageAccount"

(***************************************************************************)
(* Properties of the cursor codec and the paged handlers.                  *)
(***************************************************************************)
HandlerOps == {"userBuilder.List", "groupBuilder.List", "groupBuilder.Grants"}

Called == call.op # "none"

HandlerCalled == call.op \in HandlerOps

\* the handler's fetcher ran and returned a page
PageFetched == HandlerCalled /\ ~ret.err /\ ret.fetch.called /\ ret.fetch.ok

\* the stack entry a requested scope starts with
FreshEntry(scope) == PageState(EmptyStr, scope.ResourceType, scope.Resource)

\* the page states a serialized stack lists below its active entry
StatesOf(tok) == [k \in DOMAIN tok.states |-> PageState(tok.states[k].token, tok.states[k].type, tok.states[k].id)]

\* C5: decoding the empty token for any scope (T, R) succeeds with a stack of
\* exactly one entry {T, R, ""} and the empty provider cursor; a handler then
\* hands the empty cursor to its page fetcher.
C5_EmptyTokenFreshStack ==
    (Called /\ call.token = EmptyStr) =>
        /\ ret.decoded
        /\ ret.bag = [states |-> << >>, currentState |-> <<FreshEntry(call.scope)>>]
        /\ ret.pageToken = EmptyStr
        /\ HandlerCalled => (ret.fetch.called /\ ret.fetch.cursor = EmptyStr)

\* the empty token was decoded for a group scope
C5_Witness ==
    /\ call.op = "parsePageToken"
    /\ call.token = EmptyStr
    /\ call.scope = [ResourceType |-> groupResourceTypeId, Resource |-> "g1"]
    /\ ret.bag.currentState = <<PageState(EmptyStr, groupResourceTypeId, "g1")>>

\* a non-empty text that is no serialized stack
Undeserializable(tok) == tok.kind \in {"garbage", "b64"}

TopMismatch ==
    /\ Called
    /\ call.token.kind = "json"
    /\ call.token.cur # << >>
    /\ <<call.token.cur[1].type, call.token.cur[1].id>> # <<call.scope.ResourceType, call.scope.Resource>>

C8_EmptyTokenIffNoContinuation ==
    PageFetched =>
        /\ ret.token = EmptyStr <=> ret.fetch.cont = EmptyStr
        /\ ret.fetch.cont # EmptyStr =>
              /\ ret.token.kind = "json"
              /\ ret.token.cur = <<[token |-> ret.fetch.cont,
                                    type |-> ret.bag.currentState[1].ResourceTypeID,
                                    id |-> ret.bag.currentState[1].ResourceID]>>
              /\ StatesOf(ret.token) = ret.bag.states

\* a page of a stacked token ended the listing
C8_Witness ==
    /\ PageFetched
    /\ ret.bag.states # << >>
    /\ ret.fetch.cont = EmptyStr
    /\ ret.token = EmptyStr

\* C9: the token a List/Grants call returns for a non-empty continuation c
\* decodes, for any requested scope, to a stack whose active entry's
\* provider cursor is c.
C9_TokenRoundTrip ==
    (PageFetched /\ ret.fetch.cont # EmptyStr) =>
        \A sc \in ScopeInputs :
            LET d == parsePageToken(ret.token, [ResourceType |-> sc[1], Resource |-> sc[2]])
            IN /\ ~d.err
               /\ d.pageToken = ret.fetch.cont
               /\ d.bag.currentState[1].Token = ret.fetch.cont
               /\ d.bag.states = ret.bag.states

\* a page returned a continuation on top of a stacked token
C9_Witness ==
    /\ PageFetched
    /\ call.op = "groupBuilder.List"
    /\ ret.bag.states # << >>
    /\ ret.fetch.cont = FlatStr(IntToDigits(2))
    /\ ret.token # EmptyStr

\* a call of groupBuilder.List that is part of a walk
GroupWalk == call.op = "groupBuilder.List" /\ walk

\* C10: in a walk of groupBuilder.List (first call with the empty token, each
\* later call with the token the previous call returned) the first call
\* hands the fetcher the empty cursor, every later call hands it the
\* continuation the fetcher returned on the call before, and a call whose
\* fetcher returns the empty continuation returns the empty token.
C10_WalkThreadsContinuation ==
    /\ [][ (call'.op = "groupBuilder.List" /\ walk' /\ call'.token # EmptyStr)
              => (ret'.fetch.called /\ ret'.fetch.cursor = ret.fetch.cont) ]_vars
    /\ [](GroupWalk /\ call.token = EmptyStr => ret.fetch.called /\ ret.fetch.cursor = EmptyStr)
    /\ []((GroupWalk /\ ret.fetch.called /\ ret.fetch.ok /\ ret.fetch.cont = EmptyStr)
              => ret.token = EmptyStr)

\* a later call of a walk received the last page
C10_Witness ==
    /\ GroupWalk
    /\ call.token # EmptyStr
    /\ ~ret.err
    /\ ret.fetch.cursor = FlatStr(IntToDigits(2))
    /\ ret.fetch.cont = EmptyStr
    /\ ret.token = EmptyStr

(***************************************************************************)
(* Properties of the flat page token.                                      *)
(***************************************************************************)
NextTokenApplied == fcall.op = "GetNextToken"

\* C11: GetNextToken(page) returns a non-empty token exactly when
\* page.EndPosition < page.TotalSetSize, and the token then encodes
\* startPosition = EndPosition + 1; a page with StartPosition 0 and
\* TotalSetSize 0 yields no token.
C11_NextTokenIffEndBelowTotal ==
    NextTokenApplied =>
        /\ fret.token # EmptyStr <=> fcall.page.EndPosition < fcall.page.TotalSetSize
        /\ fret.token # EmptyStr =>
              /\ fret.token.kind = "b64"
              /\ DigitsToInt(fret.token.start) = fcall.page.EndPosition + 1
        /\ (fcall.page.StartPosition = 0 /\ fcall.page.TotalSetSize = 0) => fret.token = EmptyStr

\* the page 0..49 of 120 items yields the token of position 50
C11_Witness ==
    /\ NextTokenApplied
    /\ fcall.page = PageOf(0, 49, 120)
    /\ fret.token = FlatStr(<<"5", "0">>)

\* C12 as stated: the page ending at 49 of 120 continues at exactly 50, and
\* the page ending at 119 of 120 produces no further token.
C12_FlatProgress ==
    /\ (NextTokenApplied /\ fcall.page.EndPosition = 49 /\ fcall.page.TotalSetSize = 120)
          => fret.token = FlatStr(<<"5", "0">>)
    /\ (NextTokenApplied /\ fcall.page.EndPosition = 119 /\ fcall.page.TotalSetSize = 120)
          => fret.token = EmptyStr

\* C13: the flat cursor round-trips through its text encoding: decoding the
\* token EncodePageToken returned for startPosition s succeeds with s, and
\* decoding the empty token succeeds with startPosition 0.
C13_FlatTokenRoundTrip ==
    /\ [][ (fcall.op = "EncodePageToken" /\ fcall'.op = "DecodePageToken" /\ fcall'.token = fret.token)
              => (~fret'.err /\ fret'.pt.StartPosition = fcall.start) ]_vars
    /\ []((fcall.op = "DecodePageToken" /\ fcall.token = EmptyStr)
              => (~fret.err /\ fret.pt.StartPosition = 0))
    /\ []((fcall.op = "EncodePageToken") => fret.token # EmptyStr)

\* a three-digit position came back from its token
C13_Witness ==
    /\ fcall.op = "DecodePageToken"
    /\ fcall.token = FlatStr(<<"1", "2", "0">>)
    /\ ~fret.err
    /\ fret.pt.StartPosition = 120

(***************************************************************************)
(* Error handling of the paged handlers.                                   *)
(***************************************************************************)
\* the handler's page fetch was attempted and failed
FetchFailed == HandlerCalled /\ ret.fetch.called /\ ~ret.fetch.ok

\* C15: a List or Grants call whose page fetch fails returns an error with
\* no resources or grants and an empty next token; no call returns success
\* after a failed fetch.
C15_FetchFailureIsError ==
    /\ FetchFailed => (ret.err /\ ret.resources = << >> /\ ret.token = EmptyStr)
    /\ (HandlerCalled /\ ~ret.err) => (ret.fetch.called /\ ret.fetch.ok)

\* the provider failed a page request of a walk in progress
C15_Witness ==
    /\ FetchFailed
    /\ call.op = "groupBuilder.List"
    /\ call.token # EmptyStr
    /\ ret.reqs # << >>
    /\ ret.err


(***************************************************************************)
(* User resources and account creation.                                    *)
(***************************************************************************)
Composers == {"parseIntoUserResource", "createUserResource"}

\* the status a provider status text stands for
StatusFor(st) ==
    IF st = stActive THEN STATUS_ENABLED
    ELSE IF st \in {stDisabled, stClosed, stActivationRequired, stActivationSent}
    THEN STATUS_DISABLED
    ELSE STATUS_UNSPECIFIED

\* C16: every user resource the connector composes carries, without error,
\* the status its provider status text stands for: enabled for "Active",
\* disabled for "Disabled", "Closed", "ActivationRequired", "ActivationSent",
\* unspecified for every other text.
C16_StatusTranslation ==
    /\ ccall.op \in Composers =>
          /\ ~cret.err
          /\ Len(cret.resources) = 1
          /\ cret.resources[1].Status = StatusFor(ccall.status)
    /\ (ccall.op = "CreateAccount" /\ ~cret.err) =>
          /\ Len(cret.resources) = 1
          /\ cret.resources[1].Status = StatusFor(ccall.status)

\* the translation of parseIntoUserResource alone, which List, Grants and
\* CreateAccount of the user builder use
C16_UserBuilderTranslation ==
    (ccall.op = "parseIntoUserResource" \/ (ccall.op = "CreateAccount" /\ ~cret.err)) =>
        /\ Len(cret.resources) = 1
        /\ cret.resources[1].Status = StatusFor(ccall.status)


\* the profile holds no filled string under the key
Unfilled(pMap, key) ==
    \/ key \notin DOMAIN pMap
    \/ pMap[key].kind # "string"
    \/ pMap[key].str = sEmpty

\* C17: CreateAccount with a missing or empty email or username returns an
\* error and no resource and sends the provider no request; CreateUsers
\* with an empty user list returns an error and sends no request.
C17_ValidationBeforeRequest ==
    /\ (ccall.op = "CreateAccount"
          /\ (Unfilled(ccall.profile, "email") \/ Unfilled(ccall.profile, "username"))) =>
          cret.err /\ cret.resources = << >> /\ cret.reqs = << >>
    /\ (ccall.op = "CreateUsers" /\ ccall.users = 0) =>
          cret.err /\ cret.resources = << >> /\ cret.reqs = << >>

\* an account with a filled email and an empty username was refused
C17_Witness ==
    /\ ccall.op = "CreateAccount"
    /\ ~Unfilled(ccall.profile, "email")
    /\ "username" \in DOMAIN ccall.profile
    /\ ccall.profile["username"] = JString(sEmpty)
    /\ cret.err /\ cret.reqs = << >>


(***************************************************************************)
(* The grants of the permission resource.                                  *)
(***************************************************************************)
\* the positions of gs whose principal is user U
GrantsOf(gs, U) == {k \in DOMAIN gs : gs[k].principal = makeUserSubjectID(U.UserID)}

\* the permission ids U's settings earn
EarnedBy(U) == {P \in TablePermissionIDs : RuleSatisfied(P, U)}

Listed(es, g) ==
    \E k \in DOMAIN es : es[k].resource = g.resource /\ es[k].id = g.entitlement

Running == fetch.pc \in {"users", "details"}

\* the list a fetch returns when every page and detail was served
CompleteResult ==
    IF fetch.op = "GetAllUsersWithDetails" THEN [k \in 1..total |-> DetailOf(k - 1)]
    ELSE [k \in 1..total |-> k - 1]

\* C20: once the context is cancelled, every further step of a running
\* fetch sends no request and ends the fetch with the cancellation error;
\* a fetch that returned an error returned no list, and a fetch that
\* returned without error returned the complete list.
C20_CancelStopsFetch ==
    /\ [][(ctx /\ Running) =>
            /\ fetch'.reqs = fetch.reqs
            /\ fetch'.pc = "done"
            /\ fetch'.err = ErrCancelled
            /\ fetch'.result = << >>]_vars
    /\ []((fetch.pc = "done" /\ fetch.err # ErrNone) => fetch.result = << >>)
    /\ []((fetch.pc = "done" /\ fetch.err = ErrNone) => fetch.result = CompleteResult)

\* a detailed fetch over three users was cancelled after its first page and
\* returned the cancellation error without another request
C20_Witness ==
    /\ ctx
    /\ total = 3
    /\ fetch.op = "GetAllUsersWithDetails"
    /\ fetch.pc = "done"
    /\ fetch.err = ErrCancelled
    /\ fetch.reqs = <<PageURL(fetch.op, 0)>>


(***************************************************************************)
(* Rate-limit annotations.                                                 *)
(***************************************************************************)
\* no request of the call was issued twice
NoRetry == \A i, j \in DOMAIN aret.reqs : aret.reqs[i] = aret.reqs[j] => i = j

\* C21: the returned annotations hold the rate-limit description of every
\* response the call received, in the order received, and no request of
\* the call is issued a second time.
C21_RateLimitForwarded ==
    acall.op # "none" =>
        /\ aret.annos = ReceivedIn(acall.outs, Len(aret.reqs))
        /\ NoRetry

\* a call that returns without error forwards every description, and no
\* call issues a request twice
C21_ForwardedOnSuccess ==
    acall.op # "none" =>
        /\ ~aret.err => aret.annos = ReceivedIn(acall.outs, Len(aret.reqs))
        /\ NoRetry


(***************************************************************************)
(* Frame of the cursor advance.                                            *)
(***************************************************************************)
\* C23: when a handler records a non-empty continuation, the stack its
\* returned token serializes is the stack it decoded with one change, the
\* provider cursor of the active entry: depth, order, every lower entry and
\* the active entry's resource type and id are as decoded.
C23_AdvanceChangesOnlyCursor ==
    (PageFetched /\ ret.fetch.cont # EmptyStr) =>
        /\ ~BagUnmarshal(ret.token).err
        /\ BagUnmarshal(ret.token).bag
              = [ret.bag EXCEPT !.currentState[1].Token = ret.fetch.cont]
        /\ Len(BagUnmarshal(ret.token).bag.states) = Len(ret.bag.states)

\* a stacked token whose active entry held cursor 1 was advanced to cursor 2
C23_Witness ==
    /\ PageFetched
    /\ ret.bag.states # << >>
    /\ ret.bag.currentState[1].Token = FlatStr(IntToDigits(1))
    /\ ret.fetch.cont = FlatStr(IntToDigits(2))
    /\ BagUnmarshal(ret.token).bag.states = ret.bag.states


(***************************************************************************)
(* The detail requests of GetAllUsersWithDetails.                          *)
(***************************************************************************)
DetailRequests == SelectSeq(fetch.reqs, LAMBDA u : Len(u.endpoint) = 2)

PageRequests == SelectSeq(fetch.reqs, LAMBDA u : Len(u.endpoint) = 1)

DetailedFetch == fetch.op = "GetAllUsersWithDetails"

\* C24: GetAllUsersWithDetails requests the pages of users first and then
\* the details of the listed users one by one in list order, each user
\* once; when it returns without error it has requested the detail of
\* every listed user and returns their details in list order; when a
\* request failed it returns no details, and a returned fetch issues no
\* further request.
C24_OneDetailPerUser ==
    /\ [](DetailedFetch =>
            /\ fetch.reqs = PageRequests \o DetailRequests
            /\ Len(DetailRequests) <= Len(fetch.allUsers)
            /\ DetailRequests = [k \in 1..Len(DetailRequests) |-> DetailsURL(fetch.allUsers[k])]
            /\ Len(fetch.userDetails) <= Len(DetailRequests)
            /\ (fetch.pc = "done" /\ fetch.err = ErrNone) =>
                  /\ Len(DetailRequests) = Len(fetch.allUsers)
                  /\ fetch.result = [k \in 1..Len(fetch.allUsers) |-> DetailOf(fetch.allUsers[k])]
            /\ (fetch.pc = "done" /\ fetch.err # ErrNone) => fetch.result = << >>)
    /\ [][(DetailedFetch /\ fetch.pc = "done") => (fetch' = fetch \/ fetch'.reqs = << >>)]_vars

\* the details of three users were fetched after two pages of users
C24_Witness ==
    /\ DetailedFetch
    /\ fetch.pc = "done"
    /\ fetch.err = ErrNone
    /\ total = 3
    /\ Len(PageRequests) = 2
    /\ Len(DetailRequests) = 3
    /\ Len(fetch.result) = 3


(***************************************************************************)
(* List with an absent token.                                              *)
(***************************************************************************)
ListCalled == lcall.builder # "none"

\* C25: List called with a nil token does not panic: it returns an error,
\* or the resources of the first page after requests that start at
\* position 0.
C25_AbsentTokenListsFromStart ==
    (ListCalled /\ lcall.pToken.nil) =>
        /\ ~lret.panic
        /\ ~lret.err => (lret.reqs # << >> /\ lret.reqs[1].start_position = 0)

\* List called with a present empty token never panics and lists from
\* position 0
C25_EmptyTokenListsFromStart ==
    (ListCalled /\ ~lcall.pToken.nil) =>
        /\ ~lret.panic
        /\ ~lret.err => (lret.reqs # << >> /\ lret.reqs[1].start_position = 0)


(***************************************************************************)
(* Walks of a List by its tokens.                                          *)
(***************************************************************************)
\* the resources of all the items the provider holds, in position order
AllResources(builder) ==
    [k \in 1..total |->
        ResourceOf(IF builder = "userBuilder" THEN userResourceTypeId ELSE groupResourceTypeId,
                   k - 1)]

\* C26: a walk by tokens terminates: a call returns the empty token, and the
\* calls up to it have returned every item exactly once.
C26_WalkTerminates ==
    (wk.pc = "walking") ~> (wk.pc = "done" /\ wk.items = AllResources(wk.builder))

\* a walk terminates that way when the provider reports, for a page without
\* items, the requested start position as its endPosition
C26_TerminatesWhenEmptyPageEndsAtStart ==
    (wk.pc = "walking" /\ wk.emptyEnd = "start")
        ~> (wk.pc = "done" /\ wk.items = AllResources(wk.builder))


\* the all-pages loop of GetUsers over the provider, every request answered
LoopOverProvider ==
    AllPages(0, total, [k \in 1..(total + 1) |-> [failed |-> FALSE, desc |-> "none"]], 1)

StartsWith(long, short) ==
    Len(short) <= Len(long) /\ SubSeq(long, 1, Len(short)) = short

\* C27: over the same provider, served in pages of the same size, the walk
\* of userBuilder.List by tokens requests the start positions the all-pages
\* loop of GetUsers requests, in the same order, and returns the items the
\* loop returns, in the same order.
C27_WalkMatchesLoop ==
    (wk.pc \in {"walking", "done"} /\ wk.builder = "userBuilder" /\ wk.size = MaxPageItems) =>
        LET loop == LoopOverProvider
            starts == [k \in DOMAIN loop.reqs |-> loop.reqs[k].start_position]
            items == [k \in DOMAIN loop.items |-> ResourceOf(userResourceTypeId, loop.items[k])]
        IN /\ StartsWith(starts, wk.starts)
           /\ StartsWith(items, wk.items)
           /\ wk.pc = "done" => (wk.starts = starts /\ wk.items = items)

\* over a provider without items both make the one request for position 0
C27_MatchOverEmptyProvider ==
    (wk.pc = "done" /\ wk.builder = "userBuilder" /\ total = 0) =>
        /\ wk.starts = <<0>>
        /\ wk.starts = [k \in DOMAIN LoopOverProvider.reqs |-> LoopOverProvider.reqs[k].start_position]
        /\ wk.items = << >>


\* C28: across two successive userBuilder.List calls linked by the returned
\* token, the second call requests start_position = endPosition of the first
\* response + 1; the token handed over carries that position as the Token of
\* its active entry.
C28_NextStartFollowsEnd ==
    /\ [](wk.pc = "walking" /\ wk.prev.called /\ wk.builder = "userBuilder"
            => /\ ~BagUnmarshal(wk.token).err
               /\ BagPageToken(BagUnmarshal(wk.token).bag)
                      = EncodePageToken([StartPosition |-> wk.prev.end + 1]))
    /\ [][(wk.pc = "walking" /\ wk.prev.called /\ wk.builder = "userBuilder")
            => (wk'.pc # "failed" /\ wk'.prev.start = wk.prev.end + 1)]_vars

\* the second call of a walk over 3 users in pages of 2 asked for position 2
C28_Witness ==
    /\ wk.builder = "userBuilder"
    /\ wk.size = 2
    /\ total = 3
    /\ wk.starts = <<0, 2>>
    /\ wk.prev = [called |-> TRUE, start |-> 2, end |-> 2]
    /\ Len(wk.items) = 3


(***************************************************************************)
(* Repeated grant derivation.                                              *)
(***************************************************************************)
Derived == Len(dcall.orders) = 2

\* C29: two derivations for the same user record and settings return the
\* same sequence of grants (entitlements, access levels, order), whatever
\* the iteration orders of the map.
C29_DerivationDeterministic ==
    Derived => dret[1] = dret[2]

\* two derivations under different iteration orders returned three grants
C29_Witness ==
    /\ Derived
    /\ dcall.orders[1] # dcall.orders[2]
    /\ Reversed(fieldToPermissionMappings) \in {dcall.orders[1], dcall.orders[2]}
    /\ account[dcall.user].UserSettings = ThreeGrantSettings
    /\ Len(dret[1]) = 3
    /\ dret[1][1].entitlement # dret[1][2].entitlement


(***************************************************************************)
(* The scope of the entry a List creates.                                  *)
(***************************************************************************)
\* the resource type a List call lists
ListedType(op) == IF op = "userBuilder.List" THEN userResourceTypeId ELSE groupResourceTypeId

ListOnEmptyToken == call.op \in {"userBuilder.List", "groupBuilder.List"} /\ call.token = EmptyStr

\* C30: the entry a List creates on the empty token carries the resource
\* type the builder lists, and so does the active entry of the token the
\* call returns.
C30_FreshEntryScopedToBuilder ==
    ListOnEmptyToken =>
        /\ ret.bag.currentState = <<PageState(EmptyStr, ListedType(call.op), "")>>
        /\ (~ret.err /\ ret.token # EmptyStr) =>
               BagUnmarshal(ret.token).bag.currentState[1].ResourceTypeID = ListedType(call.op)

\* userBuilder.List scopes its entry to the user type
C30_UserListScopedToUsers ==
    (ListOnEmptyToken /\ call.op = "userBuilder.List") =>
        /\ ret.bag.currentState = <<PageState(EmptyStr, userResourceTypeId, "")>>
        /\ (~ret.err /\ ret.token # EmptyStr) =>
               BagUnmarshal(ret.token).bag.currentState[1].ResourceTypeID = userResourceTypeId


=============================================================================
